---- MODULE Spec2Model ----
(***************************************************************************)
(* A model of payroll_finisher_app.py: the hour-classification engine      *)
(* (process_payroll_data_with_stats), the shift segmenter                  *)
(* (split_shift_with_times) and the union-benefit calculator               *)
(* (calculate_union_benefits).                                             *)
(*                                                                         *)
(* Representation.                                                         *)
(*  - Text (rate codes, names, notes, time strings) is a sequence of       *)
(*    one-character strings, so that strip / lower / "in" / replace / the  *)
(*    regular expressions are computed.  The characters are U+0001..U+00FF *)
(*    without U+0060, the ones a string of this language can hold.         *)
(*  - Hours, rates, percentages and dollars are the program's floats:      *)
(*    IEEE 754 binary64 values s * m * 2^e, with every operation rounded   *)
(*    to 53 bits as the machine rounds it, so that 0.2 + 71.9 + 15.9 is    *)
(*    above 88 and round(x, 2) acts on the binary value.  H(88) is 88.0    *)
(*    and HM(7, 504) is 7.504.  Infinities, subnormal numbers and the sign *)
(*    of zero are outside the model.                                       *)
(*  - A calendar date is a day number; an instant is seconds since day 0.  *)
(*  - A missing value (NaN / None / NaT) is a distinguished value of the   *)
(*    field's type: NaNDur for durations, NaNText for text, NoTime for     *)
(*    times, NaT for the date of a time-detail row.  A missing rate-code   *)
(*    read from a float64 column is NaNCell(i), an object of its own for   *)
(*    every row.                                                           *)
(***************************************************************************)
EXTENDS Integers, Sequences, FiniteSets, TLC

VARIABLES
    df,             \* caller-supplied payroll records (Tab 1), in input order
    times_df,       \* caller-supplied time details (Tab 2), or NoFrame
    stat_configs,   \* sequence of [stat_date, php_start, php_end]
    period,         \* [start, end] of the pay period (inclusive)
    pc,             \* position of the run
    period_df,      \* the filtered, sorted private copy the run iterates
    employees,      \* names still to be processed (period_df['Name'].unique())
    emp,            \* locals of the employee loop body
    processed_rows, \* rows appended so far
    stats,          \* the run statistics
    output_df,      \* the returned frame
    union_locals,   \* locals of the union calculator's employee loop body
    union_out,      \* the union-benefit result rows
    seg_in,         \* arguments of one split_shift_with_times call
    seg_out,        \* its return value
    code_in,        \* argument of the first of successive get_ot_stat_code calls
    code_out,       \* their return values, each call applied to the last value
    caller,         \* the caller's frame objects: their columns and date type
    local           \* what the names df and times_df of the callee are bound to

vars == <<df, times_df, stat_configs, period, pc, period_df, employees, emp,
          processed_rows, stats, output_df, union_locals, union_out,
          seg_in, seg_out, code_in, code_out, caller, local>>

inputVars == <<df, times_df, stat_configs, period>>
runVars   == <<period_df, employees, emp, processed_rows, stats, output_df>>
unionVars == <<union_locals, union_out>>
segVars   == <<seg_in, seg_out>>
auxVars   == <<code_in, code_out, caller, local>>

-----------------------------------------------------------------------------
-----------------------------------------------------------------------------
(* Numbers *)

(* Natural numbers of any size: little-endian limbs of 15 bits, no leading   *)
(* zero limb.  They carry the 53-bit mantissas of the program's floats.      *)

LB == 32768

RECURSIVE BTrim(_)
BTrim(a) ==
    IF a # <<>> /\ a[Len(a)] = 0 THEN BTrim(SubSeq(a, 1, Len(a) - 1)) ELSE a

RECURSIVE BOfInt(_)
BOfInt(n) == IF n = 0 THEN <<>> ELSE <<n % LB>> \o BOfInt(n \div LB)

RECURSIVE BToInt(_)
BToInt(a) == IF a = <<>> THEN 0 ELSE a[1] + LB * BToInt(Tail(a))

BLimb(a, i) == IF i <= Len(a) THEN a[i] ELSE 0

RECURSIVE BAddAt(_, _, _, _)
BAddAt(a, b, i, carry) ==
    IF i > Len(a) /\ i > Len(b)
    THEN (IF carry = 0 THEN <<>> ELSE <<carry>>)
    ELSE <<(BLimb(a, i) + BLimb(b, i) + carry) % LB>>
         \o BAddAt(a, b, i + 1, (BLimb(a, i) + BLimb(b, i) + carry) \div LB)
BAdd(a, b) == BAddAt(a, b, 1, 0)

\* a - b for a >= b
RECURSIVE BSubAt(_, _, _, _)
BSubAt(a, b, i, borrow) ==
    IF i > Len(a) THEN <<>>
    ELSE <<(a[i] - BLimb(b, i) - borrow + LB) % LB>>
         \o BSubAt(a, b, i + 1,
                   IF a[i] - BLimb(b, i) - borrow < 0 THEN 1 ELSE 0)
BSub(a, b) == BTrim(BSubAt(a, b, 1, 0))

\* -1, 0, 1 as a is below, equal to, above b
RECURSIVE BCmpAt(_, _, _)
BCmpAt(a, b, i) ==
    IF i = 0 THEN 0
    ELSE IF a[i] < b[i] THEN 0 - 1
    ELSE IF a[i] > b[i] THEN 1
    ELSE BCmpAt(a, b, i - 1)
BCmp(a, b) ==
    IF Len(a) < Len(b) THEN 0 - 1
    ELSE IF Len(a) > Len(b) THEN 1
    ELSE BCmpAt(a, b, Len(a))

\* a * k for 0 <= k <= LB
RECURSIVE BMulSmallAt(_, _, _, _)
BMulSmallAt(a, k, i, carry) ==
    IF i > Len(a) THEN (IF carry = 0 THEN <<>> ELSE <<carry>>)
    ELSE <<(a[i] * k + carry) % LB>>
         \o BMulSmallAt(a, k, i + 1, (a[i] * k + carry) \div LB)
BMulSmall(a, k) == BTrim(BMulSmallAt(a, k, 1, 0))

RECURSIVE BMul(_, _)
BMul(a, b) ==
    IF a = <<>> \/ b = <<>> THEN <<>>
    ELSE BAdd(BMulSmall(a, b[1]),
              IF Len(b) = 1 THEN <<>> ELSE <<0>> \o BMul(a, Tail(b)))

\* [q, r] of a by k, 0 < k <= LB: limbs i..1 of a after the remainder rem,
\* q the quotient limbs found so far
RECURSIVE BDivAt(_, _, _, _, _)
BDivAt(a, k, i, rem, q) ==
    IF i = 0 THEN [q |-> BTrim(q), r |-> rem]
    ELSE BDivAt(a, k, i - 1, (rem * LB + a[i]) % k,
                <<(rem * LB + a[i]) \div k>> \o q)
BDivSmall(a, k) == BDivAt(a, k, Len(a), 0, <<>>)

RECURSIVE Pow2(_)
Pow2(n) == IF n = 0 THEN 1 ELSE 2 * Pow2(n - 1)

RECURSIVE BitsOf(_)
BitsOf(n) == IF n = 0 THEN 0 ELSE 1 + BitsOf(n \div 2)

BBitLen(a) == IF a = <<>> THEN 0 ELSE 15 * (Len(a) - 1) + BitsOf(a[Len(a)])

\* a * 2^n
BShl(a, n) ==
    IF a = <<>> THEN <<>>
    ELSE [i \in 1..(n \div 15) |-> 0] \o BMulSmall(a, Pow2(n % 15))

\* a \div 2^n
BShr(a, n) ==
    IF n \div 15 >= Len(a) THEN <<>>
    ELSE BDivSmall(SubSeq(a, n \div 15 + 1, Len(a)), Pow2(n % 15)).q

\* bit i of a, the lowest being bit 0
BBit(a, i) == (BLimb(a, i \div 15 + 1) \div Pow2(i % 15)) % 2

\* the n lowest bits of a are zero
BLowZero(a, n) ==
    /\ \A i \in 1..(n \div 15) : BLimb(a, i) = 0
    /\ BLimb(a, n \div 15 + 1) % Pow2(n % 15) = 0

RECURSIVE TrailingZeros(_)
TrailingZeros(n) == IF n % 2 = 1 THEN 0 ELSE 1 + TrailingZeros(n \div 2)
RECURSIVE BTrailingZeros(_)
BTrailingZeros(a) ==
    IF a[1] = 0 THEN 15 + BTrailingZeros(Tail(a)) ELSE TrailingZeros(a[1])

RECURSIVE Pow10(_)
Pow10(n) == IF n = 0 THEN 1 ELSE 10 * Pow10(n - 1)

\* [q, r] of a by 10^f, four decimal places at a time; r is 0 when the
\* division is exact and 1 otherwise
RECURSIVE BDivPow10(_, _, _)
RECURSIVE BDivPow10Step(_, _, _)
BDivPow10Step(dm, f, inexact) == BDivPow10(dm.q, f, inexact \/ dm.r # 0)
BDivPow10(a, f, inexact) ==
    IF f = 0 THEN [q |-> a, r |-> IF inexact THEN 1 ELSE 0]
    ELSE IF f >= 4 THEN BDivPow10Step(BDivSmall(a, 10000), f - 4, inexact)
    ELSE BDivPow10Step(BDivSmall(a, Pow10(f)), 0, inexact)

\* a \div 2^k to the nearest integer, an exact half to the even one
BRoundShr(a, k) ==
    IF k = 0 THEN a
    ELSE IF BBit(a, k - 1) = 1 /\ (~BLowZero(a, k - 1) \/ BBit(a, k) = 1)
    THEN BAdd(BShr(a, k), <<1>>)
    ELSE BShr(a, k)


-----------------------------------------------------------------------------
(* The program's floats: IEEE 754 binary64, round to nearest, ties to even.  *)
(* A float is s * m * 2^e with m odd (or zero), so equal values are equal    *)
(* records; s = 0 marks NaN.                                                 *)

FZero == [s |-> 1, m |-> <<>>, e |-> 0]
FNaN  == [s |-> 0, m |-> <<>>, e |-> 0]
FIsNaN(x) == x.s = 0

\* s * n * 2^e for a natural n that fits 53 bits
FCanonAt(s, n, e, tz) == [s |-> s, m |-> BShr(n, tz), e |-> e + tz]
FCanon(s, n, e) ==
    IF n = <<>> THEN FZero ELSE FCanonAt(s, n, e, BTrailingZeros(n))

\* s * (n + f) * 2^e to 53 bits, d = bits to drop (> 0), 0 <= f < 1 and
\* sticky iff f > 0
FRoundAt(s, n, e, sticky, d) ==
    FCanon(s,
           IF BBit(n, d - 1) = 1
              /\ (sticky \/ ~BLowZero(n, d - 1) \/ BBit(n, d) = 1)
           THEN BAdd(BShr(n, d), <<1>>)
           ELSE BShr(n, d),
           e + d)
FRound(s, n, e, sticky) ==
    IF BBitLen(n) <= 53 THEN FCanon(s, n, e)
    ELSE FRoundAt(s, n, e, sticky, BBitLen(n) - 53)

\* x + y before rounding: [s, n, e], n at the lower of the two exponents
FSumAligned(sx, nx, sy, ny, e) ==
    IF sx = sy THEN [s |-> sx, n |-> BAdd(nx, ny), e |-> e]
    ELSE IF BCmp(nx, ny) >= 0 THEN [s |-> sx, n |-> BSub(nx, ny), e |-> e]
    ELSE [s |-> sy, n |-> BSub(ny, nx), e |-> e]
FSumExact(x, y) ==
    IF x.e <= y.e
    THEN FSumAligned(x.s, x.m, y.s, BShl(y.m, y.e - x.e), x.e)
    ELSE FSumAligned(x.s, BShl(x.m, x.e - y.e), y.s, y.m, y.e)
FRounded(r) == FRound(r.s, r.n, r.e, FALSE)

FNeg(x) == IF x.m = <<>> THEN x ELSE [x EXCEPT !.s = 0 - x.s]

\* x + y, x - y
FAdd(x, y) ==
    IF FIsNaN(x) \/ FIsNaN(y) THEN FNaN ELSE FRounded(FSumExact(x, y))
FSub(x, y) == FAdd(x, FNeg(y))

\* -1, 0, 1 as x is below, equal to, above y (neither NaN)
FSignOf(r) == IF r.n = <<>> THEN 0 ELSE r.s
FCmp(x, y) == FSignOf(FSumExact(x, FNeg(y)))
FLess(x, y) == ~FIsNaN(x) /\ ~FIsNaN(y) /\ FCmp(x, y) < 0
FLessEq(x, y) == ~FIsNaN(x) /\ ~FIsNaN(y) /\ FCmp(x, y) <= 0
FPositive(x) == x.s = 1 /\ x.m # <<>>

\* x * y
FMul(x, y) ==
    IF FIsNaN(x) \/ FIsNaN(y) THEN FNaN
    ELSE FRound(x.s * y.s, BMul(x.m, y.m), x.e + y.e, FALSE)

\* x / k for an integer 0 < k <= LB
FDivRounded(s, dm, e) == FRound(s, dm.q, e, dm.r # 0)
FDivInt(x, k) ==
    IF FIsNaN(x) THEN FNaN
    ELSE IF x.m = <<>> THEN x
    ELSE FDivRounded(x.s, BDivSmall(BShl(x.m, 75), k), x.e - 75)

\* float(n) for an integer n
FOfInt(n) == IF n < 0 THEN FCanon(0 - 1, BOfInt(0 - n), 0)
             ELSE FCanon(1, BOfInt(n), 0)

\* the float nearest to n / d: a decimal literal or cell with d = 10^k
FDec(n, d) == FDivInt(FOfInt(n), d)

\* float() of a decimal numeral: the float nearest to n / 10^f for a natural
\* n in limbs
FDecimal(n, f) ==
    IF n = <<>> THEN FZero
    ELSE FDivRounded(1, BDivPow10(BShl(n, 56 + 4 * f), f, FALSE),
                     0 - (56 + 4 * f))

\* round(x, 2) on a float (lines 468, 482, 496, 514): the hundredth nearest to the exact value of x, an
\* exact half going to the even one, then the float nearest to it
Round2(x) ==
    IF FIsNaN(x) \/ x.e >= 0 THEN x
    ELSE FDec(x.s * BToInt(BRoundShr(BMulSmall(x.m, 100), 0 - x.e)), 100)

\* rint(x): the nearest integer, an exact half going to the even one
FRint(x) ==
    IF FIsNaN(x) \/ x.e >= 0 THEN x
    ELSE FCanon(x.s, BRoundShr(x.m, 0 - x.e), 0)

\* round(x, 2) on a numpy.float64: rint(x * 100) / 100
NpRound2(x) == FDivInt(FRint(FMul(x, FOfInt(100))), 100)

H(n) == FOfInt(n)                       \* n hours
HM(n, m) == FDec(n * 1000 + m, 1000)    \* the decimal numeral n.m of 3 places
NaNDur == FNaN                          \* a missing Duration (NaN)
IsNaDur(x) == FIsNaN(x)

-----------------------------------------------------------------------------
(* Text *)

NaNText == <<"nan">>            \* a missing text cell: the object np.nan
\* The float that iterrows makes of cell i of a float64 column: NaN as a value,
\* an object of its own as a dict key (a dict finds a NaN key by identity)
NaNCell(i) == <<"nan", i>>
IsNaText(s) == s # <<>> /\ Head(s) = "nan"

\* The characters in code-point order: U+0001..U+00FF without U+0060
Chars ==
    <<"", "", "", "", "", "", "", "", "\t", "\n", "", "\f", "\r", "", "", "",
      "", "", "", "", "", "", "", "", "", "", "", "", "", "", "", " ",
      "!", "\"", "#", "$", "%", "&", "'", "(", ")", "*", "+", ",", "-", ".", "/", "0",
      "1", "2", "3", "4", "5", "6", "7", "8", "9", ":", ";", "<", "=", ">", "?", "@",
      "A", "B", "C", "D", "E", "F", "G", "H", "I", "J", "K", "L", "M", "N", "O", "P",
      "Q", "R", "S", "T", "U", "V", "W", "X", "Y", "Z", "[", "\\", "]", "^", "_", "a",
      "b", "c", "d", "e", "f", "g", "h", "i", "j", "k", "l", "m", "n", "o", "p", "q",
      "r", "s", "t", "u", "v", "w", "x", "y", "z", "{", "|", "}", "~", "", "", "",
      "", "", "", "", "", "", "", "", "", "", "", "", "", "", "", "",
      "", "", "", "", "", "", "", "", "", "", "", "", "", "", " ", "¡",
      "¢", "£", "¤", "¥", "¦", "§", "¨", "©", "ª", "«", "¬", "­", "®", "¯", "°", "±",
      "²", "³", "´", "µ", "¶", "·", "¸", "¹", "º", "»", "¼", "½", "¾", "¿", "À", "Á",
      "Â", "Ã", "Ä", "Å", "Æ", "Ç", "È", "É", "Ê", "Ë", "Ì", "Í", "Î", "Ï", "Ð", "Ñ",
      "Ò", "Ó", "Ô", "Õ", "Ö", "×", "Ø", "Ù", "Ú", "Û", "Ü", "Ý", "Þ", "ß", "à", "á",
      "â", "ã", "ä", "å", "æ", "ç", "è", "é", "ê", "ë", "ì", "í", "î", "ï", "ð", "ñ",
      "ò", "ó", "ô", "õ", "ö", "÷", "ø", "ù", "ú", "û", "ü", "ý", "þ", "ÿ">>
CharSet == {Chars[i] : i \in 1..Len(Chars)}
\* chr(n)
Chr(n) == Chars[IF n < 96 THEN n ELSE n - 1]
\* ord(c)
CodePoint ==
    [c \in CharSet |->
        (CHOOSE i \in 1..Len(Chars) : Chars[i] = c)
        + (IF \E i \in 1..95 : Chars[i] = c THEN 0 ELSE 1)]
Ord(c) == CodePoint[c]

\* str.isspace() and the class \s of the regular expressions:
\* \t \n \v \f \r, U+001C..U+001F, the space, U+0085 and U+00A0
Whitespace ==
    {Chr(n) : n \in {9, 10, 11, 12, 13, 28, 29, 30, 31, 32, 133, 160}}
\* the class \d
DigitSet == {Chr(n) : n \in 48..57}
\* the characters str.lower() changes: A-Z and the capitals of U+00C0..U+00DE
UpperSet == {Chr(n) : n \in (65..90) \cup (192..214) \cup (216..222)}
LowerOf == [c \in UpperSet |-> Chr(Ord(c) + 32)]

LowerChar(c) == IF c \in UpperSet THEN LowerOf[c] ELSE c

\* str.lower()
Lower(s) == [i \in 1..Len(s) |-> LowerChar(s[i])]

\* str.strip()
RECURSIVE LStrip(_)
LStrip(s) == IF s # <<>> /\ Head(s) \in Whitespace THEN LStrip(Tail(s)) ELSE s
RECURSIVE RStrip(_)
RStrip(s) ==
    IF s # <<>> /\ s[Len(s)] \in Whitespace
    THEN RStrip(SubSeq(s, 1, Len(s) - 1)) ELSE s
Strip(s) == RStrip(LStrip(s))

\* sub == s[i : i + len(sub)]
MatchAt(s, sub, i) ==
    /\ i + Len(sub) - 1 <= Len(s)
    /\ SubSeq(s, i, i + Len(sub) - 1) = sub

\* sub in s
Contains(s, sub) == \E i \in 1..(Len(s) + 1) : MatchAt(s, sub, i)

\* s.replace(old, new), old non-empty: leftmost, non-overlapping
RECURSIVE Replace(_, _, _)
Replace(s, old, new) ==
    IF s = <<>> THEN <<>>
    ELSE IF MatchAt(s, old, 1)
         THEN new \o Replace(SubSeq(s, Len(old) + 1, Len(s)), old, new)
         ELSE <<Head(s)>> \o Replace(Tail(s), old, new)

IsDigit(c) == c \in DigitSet
DigitValue(c) == Ord(c) - 48

\* The natural number a decimal numeral denotes, in limbs; underscores are
\* passed over
RECURSIVE DigitsValue(_, _)
DigitsValue(s, acc) ==
    IF s = <<>> THEN acc
    ELSE IF Head(s) = "_" THEN DigitsValue(Tail(s), acc)
    ELSE DigitsValue(Tail(s),
                     BAdd(BMulSmall(acc, 10), BOfInt(DigitValue(Head(s)))))

\* The numerals int() accepts after the sign: digits, with single underscores
\* between digits
IsNumeral(t) ==
    /\ t # <<>>
    /\ \A i \in 1..Len(t) :
          \/ IsDigit(t[i])
          \/ /\ t[i] = "_"
             /\ 1 < i /\ i < Len(t)
             /\ IsDigit(t[i - 1]) /\ IsDigit(t[i + 1])

\* int(text): blanks around, an optional sign, a numeral; anything else is
\* the ValueError (ok = FALSE).  The value is (neg ? -1 : 1) * mag, mag in
\* limbs.
IntOfNumeral(neg, t) ==
    IF IsNumeral(t) THEN [ok |-> TRUE, neg |-> neg, mag |-> DigitsValue(t, <<>>)]
    ELSE [ok |-> FALSE, neg |-> FALSE, mag |-> <<>>]
IntOfSigned(t) ==
    IF t # <<>> /\ Head(t) = "-" THEN IntOfNumeral(TRUE, Tail(t))
    ELSE IF t # <<>> /\ Head(t) = "+" THEN IntOfNumeral(FALSE, Tail(t))
    ELSE IntOfNumeral(FALSE, t)
\* The blanks int() passes over at both ends: the ASCII blanks \t \n \v \f \r
\* and the space, and the blanks beyond ASCII (U+0085, U+00A0), which are
\* turned into spaces first; U+001C..U+001F are not among them
IntBlanks == {Chr(n) : n \in {9, 10, 11, 12, 13, 32, 133, 160}}
RECURSIVE IntLStrip(_)
IntLStrip(s) == IF s # <<>> /\ Head(s) \in IntBlanks THEN IntLStrip(Tail(s)) ELSE s
RECURSIVE IntRStrip(_)
IntRStrip(s) ==
    IF s # <<>> /\ s[Len(s)] \in IntBlanks
    THEN IntRStrip(SubSeq(s, 1, Len(s) - 1)) ELSE s
ParseInt(text) == IntOfSigned(IntRStrip(IntLStrip(text)))

\* The literals of the source
S_regular       == <<"r","e","g","u","l","a","r">>
S_Regular       == <<"R","e","g","u","l","a","r">>
S_HourlyOT      == <<"H","o","u","r","l","y"," ","O","v","e","r","t","i","m","e",
                     " ","/","S","T","A","T">>
S_2175          == <<"2","1",".","7","5">>
S_2175_OT       == <<"2","1",".","7","5"," ","R","a","t","e"," ","O","T","/",
                     "S","T","A","T">>
S_OT            == <<"O","T">>
S_STAT          == <<"S","T","A","T">>
S_PHP           == <<"P","H","P">>
S_sp_OT_STAT    == <<" ","O","T","/","S","T","A","T">>
S_sp_OT_sp_STAT == <<" ","O","T","/"," ","S","T","A","T">>
S_PHP_Holiday   == <<"P","H","P"," ","(","H","o","l","i","d","a","y",")">>

-----------------------------------------------------------------------------
(* get_ot_stat_code *)

get_ot_stat_code(rate_code) ==
    IF IsNaText(rate_code) THEN rate_code
    ELSE LET rate_str == Strip(rate_code) IN
         IF Lower(rate_str) = S_regular THEN S_HourlyOT
         ELSE IF Contains(rate_str, S_2175) /\ ~Contains(rate_str, S_OT)
              THEN S_2175_OT
         ELSE LET base_code ==
                     Strip(Replace(Replace(rate_str, S_sp_OT_STAT, <<>>),
                                   S_sp_OT_sp_STAT, <<>>))
              IN  base_code \o S_sp_OT_sp_STAT

-----------------------------------------------------------------------------
(* extract_rate_from_code, extract_vacation_percent *)

S_Rate    == <<"R","a","t","e">>
S_percent == <<"p","e","r","c","e","n","t">>

RECURSIVE LeadingDigits(_)
LeadingDigits(s) ==
    IF s # <<>> /\ IsDigit(Head(s)) THEN 1 + LeadingDigits(Tail(s)) ELSE 0

\* The group (\d+\.?\d*) at the start of s, k digits before the point and f
\* digits after it: float(group 1) and the text after the group
DecimalGroup(s, k, dot, f) ==
    [ok    |-> TRUE,
     value |-> FDecimal(DigitsValue(SubSeq(s, 1, k)
                                    \o SubSeq(s, k + 2, k + 1 + f), <<>>), f),
     rest  |-> SubSeq(s, k + 1 + (IF dot THEN 1 + f ELSE 0), Len(s))]
DecimalDotted(s, k, dot) ==
    DecimalGroup(s, k, dot,
                 IF dot THEN LeadingDigits(SubSeq(s, k + 2, Len(s))) ELSE 0)

\* The regular expression (\d+\.?\d*) at the start of s, every part taking as
\* much as it can: whether it matches, float(group 1) and the text after the
\* match.  What follows the group in the patterns (a blank, "R", "p", "%")
\* is neither a digit nor a point, so no shorter group can match instead.
DecimalPrefix(s) ==
    IF LeadingDigits(s) = 0 THEN [ok |-> FALSE, value |-> FZero, rest |-> s]
    ELSE DecimalDotted(s, LeadingDigits(s),
                       LeadingDigits(s) < Len(s) /\ s[LeadingDigits(s) + 1] = ".")

RATE_REGULAR == FDec(1760, 100)         \* the literal 17.60 of line 30

\* re.match(r'(\d+\.?\d*)\s*Rate', rate_str), line 33
MatchRate(m) ==
    IF m.ok /\ MatchAt(LStrip(m.rest), S_Rate, 1) THEN m.value ELSE FZero

\* Lines 21-37; the rate in dollars
extract_rate_from_code(rate_code) ==
    IF IsNaText(rate_code) THEN FZero
    ELSE IF Lower(Strip(rate_code)) = S_regular THEN RATE_REGULAR
    ELSE MatchRate(DecimalPrefix(Strip(rate_code)))

NoMatch == [ok |-> FALSE, value |-> FZero]
Matched(v) == [ok |-> TRUE, value |-> v]

\* re.search(r'(\d+\.?\d*)%', s): float(group 1) of the leftmost match
RECURSIVE SearchPercentSign(_)
RECURSIVE SearchPercentSignAt(_, _)
SearchPercentSignAt(s, m) ==
    IF m.ok /\ MatchAt(m.rest, <<"%">>, 1) THEN Matched(m.value)
    ELSE SearchPercentSign(Tail(s))
SearchPercentSign(s) ==
    IF s = <<>> THEN NoMatch ELSE SearchPercentSignAt(s, DecimalPrefix(s))

\* re.search(r'(\d+\.?\d*)\s*percent', s, re.IGNORECASE)
RECURSIVE SearchPercentWord(_)
RECURSIVE SearchPercentWordAt(_, _)
SearchPercentWordAt(s, m) ==
    IF m.ok /\ MatchAt(Lower(LStrip(m.rest)), S_percent, 1)
    THEN Matched(m.value)
    ELSE SearchPercentWord(Tail(s))
SearchPercentWord(s) ==
    IF s = <<>> THEN NoMatch ELSE SearchPercentWordAt(s, DecimalPrefix(s))

VACATION_DEFAULT == FDec(4, 100)        \* the literal 0.04 of lines 63, 76, 419

\* Lines 68-76 on the stripped notes
VacationOf(sign, notes_str) ==
    IF sign.ok THEN FDivInt(sign.value, 100)
    ELSE IF SearchPercentWord(notes_str).ok
    THEN FDivInt(SearchPercentWord(notes_str).value, 100)
    ELSE VACATION_DEFAULT

\* Lines 60-76; the fraction as a float (4% is 0.04)
extract_vacation_percent(notes) ==
    IF IsNaText(notes) THEN VACATION_DEFAULT
    ELSE VacationOf(SearchPercentSign(Strip(notes)), Strip(notes))

-----------------------------------------------------------------------------
(* Time cells and instants *)

\* A cell of Actual_Start / Actual_End: missing, a datetime.time, or a string.
NoTime == [kind |-> "nat", hms |-> <<0, 0, 0>>, text |-> <<>>]
TimeOf(h, m, s) == [kind |-> "time", hms |-> <<h, m, s>>, text |-> <<>>]
TimeStr(chars) == [kind |-> "str", hms |-> <<0, 0, 0>>, text |-> chars]

SecondsPerDay == 24 * 3600
\* datetime.combine(date, t)
Combine(date, hms) == date * SecondsPerDay + hms[1] * 3600 + hms[2] * 60 + hms[3]
\* datetime.date()
DateOf(instant) == instant \div SecondsPerDay
\* timedelta.total_seconds() / 3600 (line 155)
HoursOfSeconds(sec) == FDivInt(FOfInt(sec), 3600)

\* str.split(':')
RECURSIVE SplitColon(_, _)
SplitColon(s, cur) ==
    IF s = <<>> THEN <<cur>>
    ELSE IF Head(s) = ":" THEN <<cur>> \o SplitColon(Tail(s), <<>>)
    ELSE SplitColon(Tail(s), Append(cur, Head(s)))

\* Lines 102-126: a time object is used as it is; anything else is parsed as
\* "H:M:S"; any exception makes the caller fall back.
\* The int p is a field datetime.time accepts: 0 <= p <= hi
InField(p, hi) ==
    /\ p.ok
    /\ \/ p.mag = <<>>
       \/ ~p.neg /\ Len(p.mag) = 1 /\ p.mag[1] <= hi
NoParse == [ok |-> FALSE, hms |-> <<0, 0, 0>>]
TimeOfFields(h, m, s) ==
    IF InField(h, 23) /\ InField(m, 59) /\ InField(s, 59)
    THEN [ok |-> TRUE, hms |-> <<BToInt(h.mag), BToInt(m.mag), BToInt(s.mag)>>]
    ELSE NoParse
TimeOfParts(parts) ==
    IF Len(parts) # 3 THEN NoParse
    ELSE TimeOfFields(ParseInt(parts[1]), ParseInt(parts[2]), ParseInt(parts[3]))
ParseTimeCell(cell) ==
    IF cell.kind = "time" THEN [ok |-> TRUE, hms |-> cell.hms]
    ELSE TimeOfParts(SplitColon(cell.text, <<>>))

\* t1 < t2 on datetime.time
TimeLess(a, b) ==
    \/ a[1] < b[1]
    \/ a[1] = b[1] /\ a[2] < b[2]
    \/ a[1] = b[1] /\ a[2] = b[2] /\ a[3] < b[3]

-----------------------------------------------------------------------------
(* split_shift_with_times *)

\* any(d == stat_date.date() for stat_date in stat_dates)
IsStatDate(d, stat_dates) == \E i \in 1..Len(stat_dates) : stat_dates[i] = d

Segment(d, h, st) == [date |-> d, hours |-> h, is_stat |-> st]

\* A variant of FallbackSegments that never flags the segment statutory
FallbackSegments_NotStat(shift_date, total_hours, stat_dates) ==
    <<Segment(shift_date, total_hours, FALSE)>>

\* Lines 98-99, 112-113, 125-126
FallbackSegments(shift_date, total_hours, stat_dates) ==
    <<Segment(shift_date, total_hours, IsStatDate(shift_date, stat_dates))>>

\* Lines 142-164: the while loop from current_datetime to shift_end
RECURSIVE SplitLoop(_, _, _)
SplitLoop(current_datetime, shift_end, stat_dates) ==
    IF ~(current_datetime < shift_end) THEN <<>>
    ELSE LET current_date  == DateOf(current_datetime)
             next_midnight == Combine(current_date + 1, <<0, 0, 0>>)
             segment_end   == IF next_midnight <= shift_end
                              THEN next_midnight ELSE shift_end
             segment_hours == HoursOfSeconds(segment_end - current_datetime)
             is_stat       == IsStatDate(current_date, stat_dates)
             here == IF FPositive(segment_hours)
                     THEN <<Segment(current_date, segment_hours, is_stat)>>
                     ELSE <<>>
         IN  here \o SplitLoop(segment_end, shift_end, stat_dates)

\* A variant of ShiftEnd that always ends the shift on the shift date
ShiftEnd_SameDay(shift_date, start_t, end_t) == Combine(shift_date, end_t)

\* Lines 128-137
ShiftEnd(shift_date, start_t, end_t) ==
    IF TimeLess(end_t, start_t)
    THEN Combine(shift_date + 1, end_t)
    ELSE Combine(shift_date, end_t)

split_shift_with_times(shift_date, start_time, end_time, total_hours, stat_dates) ==
    IF start_time.kind = "nat" \/ end_time.kind = "nat"
    THEN FallbackSegments(shift_date, total_hours, stat_dates)
    ELSE LET st == ParseTimeCell(start_time)
             en == ParseTimeCell(end_time)
         IN  IF ~st.ok \/ ~en.ok
             THEN FallbackSegments(shift_date, total_hours, stat_dates)
             ELSE SplitLoop(Combine(shift_date, st.hms),
                            ShiftEnd(shift_date, st.hms, en.hms), stat_dates)

-----------------------------------------------------------------------------
(* Frames, ordering, dictionaries *)

\* a < b on str: by code points, a proper prefix first
RECURSIVE TextLess(_, _)
TextLess(a, b) ==
    IF b = <<>> THEN FALSE
    ELSE IF a = <<>> THEN TRUE
    ELSE IF Head(a) = Head(b) THEN TextLess(Tail(a), Tail(b))
    ELSE Ord(Head(a)) < Ord(Head(b))

\* The order sort_values gives a text column: missing values last
TextBefore(a, b) ==
    /\ ~IsNaText(a)
    /\ IsNaText(b) \/ TextLess(a, b)

\* A stable sort: less[i][j] says that element i sorts before element j;
\* elements that compare equal keep their order
StableOrder(s, less) ==
    LET n == Len(s)
        Before(j, i) == less[j][i] \/ (~less[i][j] /\ j < i)
        Pos(i) == Cardinality({j \in 1..n : Before(j, i)}) + 1
    IN  [k \in 1..n |-> s[CHOOSE i \in 1..n : Pos(i) = k]]

\* A row of the payroll frame
Row(name, date, item, duration, notes) ==
    [Name |-> name, Date |-> date, Item |-> item, Duration |-> duration,
     Notes |-> notes]

NameDateLess(a, b) ==
    \/ TextBefore(a.Name, b.Name)
    \/ a.Name = b.Name /\ a.Date < b.Date
NameItemLess(a, b) ==
    \/ TextBefore(a.Name, b.Name)
    \/ a.Name = b.Name /\ TextBefore(a.Item, b.Item)

\* sort_values(['Name', 'Transaction Date'])
SortByNameDate(rows) ==
    StableOrder(rows, [i \in 1..Len(rows) |-> [j \in 1..Len(rows) |->
                           NameDateLess(rows[i], rows[j])]])
\* The insertion sort by Transaction Date: rows of one date keep their order
InsertionSortByDate(rows) ==
    StableOrder(rows, [i \in 1..Len(rows) |-> [j \in 1..Len(rows) |->
                           rows[i].Date < rows[j].Date]])

\* Every arrangement of the rows in ascending date
RECURSIVE DateArrangements(_)
DateArrangements(rows) ==
    IF rows = <<>> THEN {<<>>}
    ELSE LET n      == Len(rows)
             firsts == {i \in 1..n : \A j \in 1..n : rows[i].Date <= rows[j].Date}
             Rest(i) == SubSeq(rows, 1, i - 1) \o SubSeq(rows, i + 1, n)
         IN  UNION {{<<rows[i]>> \o t : t \in DateArrangements(Rest(i))} :
                       i \in firsts}

\* sort_values('Transaction Date'): the default kind is numpy's quicksort,
\* which leaves a partition of at most 17 elements to the insertion sort and
\* partitions a longer one around a pivot, so that rows of one date come in
\* an order that depends on the build; the outcomes the sort can have
SortByDate(rows) ==
    IF Len(rows) <= 17 THEN {InsertionSortByDate(rows)}
    ELSE DateArrangements(rows)

\* The value of an expression with one outcome; none when there are several
TheOutcome(outcomes) == CHOOSE x \in outcomes : outcomes = {x}
\* sort_values(['Name', 'Payroll Item'])
SortByNameItem(rows) ==
    StableOrder(rows, [i \in 1..Len(rows) |-> [j \in 1..Len(rows) |->
                           NameItemLess(rows[i], rows[j])]])

\* Series.unique(): values in order of first appearance
RECURSIVE UniqueNames(_, _)
UniqueNames(rows, seen) ==
    IF rows = <<>> THEN <<>>
    ELSE IF Head(rows).Name \in seen THEN UniqueNames(Tail(rows), seen)
    ELSE <<Head(rows).Name>> \o UniqueNames(Tail(rows), seen \cup {Head(rows).Name})

\* frame[frame['Name'] == name]; a missing name equals nothing, itself included
RECURSIVE RowsOfName(_, _)
RowsOfName(rows, name) ==
    IF rows = <<>> THEN <<>>
    ELSE (IF Head(rows).Name = name /\ ~IsNaText(name)
          THEN <<Head(rows)>> ELSE <<>>)
         \o RowsOfName(Tail(rows), name)

\* frame[(date >= lo) & (date <= hi)]
RECURSIVE RowsBetween(_, _, _)
RowsBetween(rows, lo, hi) ==
    IF rows = <<>> THEN <<>>
    ELSE (IF Head(rows).Date >= lo /\ Head(rows).Date <= hi
          THEN <<Head(rows)>> ELSE <<>>)
         \o RowsBetween(Tail(rows), lo, hi)

\* The Payroll Item column of the frame holds text in some row: it is then an
\* object column, whose missing cells are the one object np.nan; without any
\* text it is a float64 column.  Selecting and sorting rows keep the column
\* as it is.
ItemColumnIsText(frame) == \E i \in 1..Len(frame) : ~IsNaText(frame[i].Item)

\* employee_shifts.iterrows() (lines 326, 564): the cells of an object column
\* as they are, the cells of a float64 column boxed row by row, a new float
\* for every row
IterRows(rows, item_is_text) ==
    [i \in 1..Len(rows) |->
        IF ~item_is_text /\ IsNaText(rows[i].Item)
        THEN [rows[i] EXCEPT !.Item = NaNCell(i)] ELSE rows[i]]

\* A dict in insertion order: a sequence of [key, val]; a key is found when it
\* is equal to k, a missing code (NaN) when it is the same object
HasKey(d, k) == \E i \in 1..Len(d) : d[i].key = k
\* if k not in d: d[k] = 0 ; d[k] += v
DictAdd(d, k, v) ==
    IF HasKey(d, k)
    THEN [i \in 1..Len(d) |->
             IF d[i].key = k THEN [key |-> k, val |-> FAdd(d[i].val, v)]
             ELSE d[i]]
    ELSE Append(d, [key |-> k, val |-> FAdd(FZero, v)])
DictGet(d, k) == IF HasKey(d, k)
                 THEN d[CHOOSE i \in 1..Len(d) : d[i].key = k].val ELSE FZero

-----------------------------------------------------------------------------
(* create_times_lookup *)

NoFrame == [present |-> FALSE, rows |-> <<>>]
TimesFrame(rows) == [present |-> TRUE, rows |-> rows]
TimesRow(name, date, start, end) ==
    [Name |-> name, Date |-> date, Actual_Start |-> start, Actual_End |-> end]

\* A missing Transaction Date (NaT)
NaT == -1

\* Line 248: pd.notna(name) and pd.notna(date)
RECURSIVE RowsWithKey(_)
RowsWithKey(rows) ==
    IF rows = <<>> THEN <<>>
    ELSE (IF ~IsNaText(Head(rows).Name) /\ Head(rows).Date # NaT
          THEN <<Head(rows)>> ELSE <<>>)
         \o RowsWithKey(Tail(rows))

\* times_dict as the list of its (key, value) assignments, in row order:
\* none for None, and none for a row without a name or without a date
create_times_lookup(tdf) ==
    IF ~tdf.present THEN <<>> ELSE RowsWithKey(tdf.rows)

\* lookup_key in times_dict
InTimes(times_dict, name, date) ==
    \E i \in 1..Len(times_dict) :
        times_dict[i].Name = name /\ times_dict[i].Date = date
\* times_dict[lookup_key]: the last assignment to the key
TimesAt(times_dict, name, date) ==
    LET hits == {i \in 1..Len(times_dict) :
                    times_dict[i].Name = name /\ times_dict[i].Date = date}
        last == CHOOSE i \in hits : \A j \in hits : j <= i
    IN  times_dict[last]

-----------------------------------------------------------------------------
(* process_payroll_data_with_stats: the pieces of the loop body *)

OT_THRESHOLD == H(88)           \* the literal 88 of lines 367, 374, 384

\* Line 332
SkipDuration(shift_hours) == IsNaDur(shift_hours) \/ shift_hours = FZero
\* Line 336
AlreadyMarked(rate_code) ==
    \/ Contains(rate_code, S_OT)
    \/ Contains(rate_code, S_STAT)
    \/ Contains(rate_code, S_PHP)

\* Lines 339-351: the segments of one shift row
ShiftSegments(employee_name, shift, times_dict, stat_dates) ==
    LET found      == InTimes(times_dict, employee_name, shift.Date)
        start_time == IF found
                      THEN TimesAt(times_dict, employee_name, shift.Date).Actual_Start
                      ELSE NoTime
        end_time   == IF found
                      THEN TimesAt(times_dict, employee_name, shift.Date).Actual_End
                      ELSE NoTime
    IN  split_shift_with_times(shift.Date, start_time, end_time,
                               shift.Duration, stat_dates)

\* The accumulators of one employee (lines 320-323) and the statistics record t they feed
NewBuckets ==
    [cumulative_regular_hours |-> FZero,
     regular_hours  |-> <<>>,
     overtime_hours |-> <<>>,
     stat_hours     |-> <<>>]

\* Lines 302-310
NewStats(input_shifts) ==
    [employees_processed |-> 0,
     input_shifts        |-> input_shifts,
     output_lines        |-> 0,
     total_regular_hours |-> FZero,
     total_ot_hours      |-> FZero,
     total_stat_hours    |-> FZero,
     total_php_hours     |-> FZero]

\* A variant of AllocateStat that also advances the 88-hour counter
AllocateStat_Counted(b, t, rate_code, seg_hours) ==
    [buckets |-> [b EXCEPT
                      !.stat_hours =
                          DictAdd(@, get_ot_stat_code(rate_code), seg_hours),
                      !.cumulative_regular_hours = FAdd(@, seg_hours)],
     totals  |-> [t EXCEPT !.total_stat_hours = FAdd(@, seg_hours)]]

\* Lines 354-360: a statutory segment
AllocateStat(b, t, rate_code, seg_hours) ==
    [buckets |-> [b EXCEPT !.stat_hours =
                      DictAdd(@, get_ot_stat_code(rate_code), seg_hours)],
     totals  |-> [t EXCEPT !.total_stat_hours = FAdd(@, seg_hours)]]

\* Lines 367-372: the whole segment is regular
AllRegular(b, t, rate_code, seg_hours) ==
    [buckets |-> [b EXCEPT
         !.regular_hours = DictAdd(@, rate_code, seg_hours),
         !.cumulative_regular_hours = FAdd(@, seg_hours)],
     totals  |-> [t EXCEPT !.total_regular_hours = FAdd(@, seg_hours)]]

\* Lines 374-380: the whole segment is overtime
AllOvertime(b, t, rate_code, seg_hours) ==
    [buckets |-> [b EXCEPT
         !.overtime_hours = DictAdd(@, get_ot_stat_code(rate_code), seg_hours),
         !.cumulative_regular_hours = FAdd(@, seg_hours)],
     totals  |-> [t EXCEPT !.total_ot_hours = FAdd(@, seg_hours)]]

\* Lines 386-398: the two portions of a segment that spans the threshold
SplitPortions(b, t, rate_code, seg_hours, regular_portion, ot_portion) ==
    [buckets |-> [b EXCEPT
         !.regular_hours = DictAdd(@, rate_code, regular_portion),
         !.overtime_hours = DictAdd(@, get_ot_stat_code(rate_code), ot_portion),
         !.cumulative_regular_hours = FAdd(@, seg_hours)],
     totals  |-> [t EXCEPT
         !.total_regular_hours = FAdd(@, regular_portion),
         !.total_ot_hours = FAdd(@, ot_portion)]]

\* Lines 383-385: regular_portion = 88 - hours_before,
\* ot_portion = seg_hours - regular_portion
SplitAtThreshold(b, t, rate_code, seg_hours, regular_portion) ==
    SplitPortions(b, t, rate_code, seg_hours, regular_portion,
                  FSub(seg_hours, regular_portion))

\* A variant of AllocateRegular without the split: a segment that spans the
\* threshold goes to overtime as a whole
AllocateRegular_NoSplit(b, t, rate_code, seg_hours) ==
    IF FLessEq(FAdd(b.cumulative_regular_hours, seg_hours), OT_THRESHOLD)
    THEN AllRegular(b, t, rate_code, seg_hours)
    ELSE AllOvertime(b, t, rate_code, seg_hours)

\* Lines 362-401: a non-statutory segment against the 88-hour threshold;
\* hours_before is the counter, hours_after the counter plus the segment
AllocateRegular(b, t, rate_code, seg_hours) ==
    IF FLessEq(FAdd(b.cumulative_regular_hours, seg_hours), OT_THRESHOLD)
    THEN AllRegular(b, t, rate_code, seg_hours)
    ELSE IF FLessEq(OT_THRESHOLD, b.cumulative_regular_hours)
    THEN AllOvertime(b, t, rate_code, seg_hours)
    ELSE SplitAtThreshold(b, t, rate_code, seg_hours,
                          FSub(OT_THRESHOLD, b.cumulative_regular_hours))

\* A variant of AllocateSegment that sends every segment to the threshold
AllocateSegment_NoStat(b, t, rate_code, seg) ==
    AllocateRegular(b, t, rate_code, seg.hours)

\* Lines 353-401: the body of the segment loop
AllocateSegment(b, t, rate_code, seg) ==
    IF seg.is_stat
    THEN AllocateStat(b, t, rate_code, seg.hours)
    ELSE AllocateRegular(b, t, rate_code, seg.hours)

\* An output row (lines 462-472); the fixed markers 'STAR TOTAL', 'Labor',
\* '', 'N', '' are the same on every row and are left out.
OutRow(name, date, item, hours) ==
    [Name |-> name, Date |-> date,
     Item |-> IF IsNaText(item) THEN NaNText ELSE item, Duration |-> hours]

\* Lines 461-501: one row per key of each of the three dicts
BucketRows(name, first_date, d) ==
    [i \in 1..Len(d) |-> OutRow(name, first_date, d[i].key, Round2(d[i].val))]

ConsolidatedRows(name, first_date, b) ==
    BucketRows(name, first_date, b.regular_hours)
    \o BucketRows(name, first_date, b.overtime_hours)
    \o BucketRows(name, first_date, b.stat_hours)

-----------------------------------------------------------------------------
(* process_payroll_data_with_stats: the holiday entitlement (PHP) *)

PHP_CAP == H(176)               \* the literal 176 of line 440

\* Lines 283-295: lookback_data[stat_date] is the frame of the last
\* configuration with that date
LookbackFrame(frame, configs, stat_date) ==
    LET hits == {i \in 1..Len(configs) : configs[i].stat_date = stat_date}
        last == CHOOSE i \in hits : \A j \in hits : j <= i
    IN  RowsBetween(frame, configs[last].php_start, configs[last].php_end)

\* 'OT' in code or 'STAT' in code (line 430); the pattern 'OT|STAT' (line 447)
HasOtOrStat(rate_code) ==
    Contains(rate_code, S_OT) \/ Contains(rate_code, S_STAT)

\* Lines 426-431: the rows the loop does not skip
RECURSIVE LookbackCounted(_)
LookbackCounted(rows) ==
    IF rows = <<>> THEN <<>>
    ELSE (IF SkipDuration(Head(rows).Duration) \/ HasOtOrStat(Head(rows).Item)
          THEN <<>> ELSE <<Head(rows)>>)
         \o LookbackCounted(Tail(rows))

\* Lines 417, 437: total_hours = 0, then total_hours += lb_hours row by row
RECURSIVE SumDurationFrom(_, _)
SumDurationFrom(rows, total_hours) ==
    IF rows = <<>> THEN total_hours
    ELSE SumDurationFrom(Tail(rows), FAdd(total_hours, Head(rows).Duration))
SumDuration(rows) == SumDurationFrom(rows, FZero)

\* Lines 419, 435: vacation_pct = max(vacation_pct, ...) from the default 0.04;
\* max keeps its first argument unless the second is greater
LargerVacation(vacation_pct, v) ==
    IF FLess(vacation_pct, v) THEN v ELSE vacation_pct
RECURSIVE MaxVacation(_, _)
MaxVacation(rows, vacation_pct) ==
    IF rows = <<>> THEN vacation_pct
    ELSE MaxVacation(Tail(rows),
             LargerVacation(vacation_pct,
                            extract_vacation_percent(Head(rows).Notes)))

\* Lines 446-448: the rows whose code does not match 'OT|STAT' (a missing
\* code counts as no match, na=False)
RECURSIVE RowsWithoutOtStat(_)
RowsWithoutOtStat(rows) ==
    IF rows = <<>> THEN <<>>
    ELSE (IF ~IsNaText(Head(rows).Item) /\ HasOtOrStat(Head(rows).Item)
          THEN <<>> ELSE <<Head(rows)>>)
         \o RowsWithoutOtStat(Tail(rows))

\* Series.mode() leaves missing values out: the codes it counts
RECURSIVE CodesPresent(_)
CodesPresent(rows) ==
    IF rows = <<>> THEN <<>>
    ELSE (IF IsNaText(Head(rows).Item) THEN <<>> ELSE <<Head(rows).Item>>)
         \o CodesPresent(Tail(rows))

\* len(rate_codes) > 0 (line 450)
HasPrimaryCode(rows) == CodesPresent(RowsWithoutOtStat(rows)) # <<>>

\* Series.mode() returns the most frequent values in ascending order;
\* .iloc[0] is the least of them
ModeOf(items) ==
    LET Count(c) == Cardinality({i \in 1..Len(items) : items[i] = c})
        codes == {items[i] : i \in 1..Len(items)}
        modes == {c \in codes : \A o \in codes : Count(o) <= Count(c)}
    IN  CHOOSE c \in modes : \A o \in modes : o = c \/ TextLess(c, o)

\* Lines 446-451: rate_codes.iloc[0]
PrimaryCode(rows) == ModeOf(CodesPresent(RowsWithoutOtStat(rows)))

FOne == FOfInt(1)

\* Lines 455-457: php_dollars = (total_wages * (1 + vacation_pct)) / 20 and
\* php_hours = php_dollars / 30, when total_wages > 0
PhpDollars(total_wages, vacation_pct) ==
    IF FPositive(total_wages)
    THEN FDivInt(FMul(total_wages, FAdd(FOne, vacation_pct)), 20)
    ELSE FZero
PhpFigures(c, capped_hours, primary_rate, total_wages, php_dollars) ==
    [rows         |-> Len(c.rows),
     total_hours  |-> c.total_hours,
     vacation_pct |-> c.vacation_pct,
     capped_hours |-> capped_hours,
     primary_rate |-> primary_rate,
     total_wages  |-> total_wages,
     php_dollars  |-> php_dollars,
     php_hours    |-> FDivInt(php_dollars, 30)]
PhpWages(c, capped_hours, primary_rate, total_wages) ==
    PhpFigures(c, capped_hours, primary_rate, total_wages,
               PhpDollars(total_wages, c.vacation_pct))

\* Line 452: total_wages = capped_hours * primary_rate; c holds the locals of
\* the row loop
PhpEntitlement(c, capped_hours, primary_rate) ==
    PhpWages(c, capped_hours, primary_rate, FMul(capped_hours, primary_rate))

\* Lines 443-451: the rate of the primary code, when there are capped hours
\* and a code to take it from; total_wages stays 0 otherwise
PhpRated(c, capped_hours) ==
    PhpEntitlement(c, capped_hours,
                   IF FPositive(capped_hours) /\ HasPrimaryCode(c.rows)
                   THEN extract_rate_from_code(PrimaryCode(c.rows))
                   ELSE FZero)

\* Lines 410-437 before the cap
PhpCounted(employee_lookback, counted) ==
    [rows |-> employee_lookback, total_hours |-> SumDuration(counted),
     vacation_pct |-> MaxVacation(counted, VACATION_DEFAULT)]

\* A variant of PhpCapped without the cap of 176 hours
PhpCapped_NoCap(c) == PhpRated(c, c.total_hours)

\* Line 440: capped_hours = min(total_hours, 176)
PhpCapped(c) ==
    PhpRated(c, IF FLess(PHP_CAP, c.total_hours) THEN PHP_CAP ELSE c.total_hours)

\* Lines 410-458: the locals of one iteration of the holiday loop
PhpLocals(employee_name, lookback_df) ==
    PhpCapped(PhpCounted(RowsOfName(lookback_df, employee_name),
                  LookbackCounted(RowsOfName(lookback_df, employee_name))))

\* Lines 456-458: the entitlement hours of one holiday
PhpHours(employee_name, lookback_df) ==
    PhpLocals(employee_name, lookback_df).php_hours

\* Lines 406-458: the locals of every iteration, in the order of stat_dates
PhpAllLocals(employee_name, frame, configs) ==
    [i \in 1..Len(configs) |->
        PhpLocals(employee_name,
                  LookbackFrame(frame, configs, configs[i].stat_date))]

\* Lines 404-458: php_total_hours = 0, then php_total_hours += php_hours in
\* the order of stat_dates, from configuration i on
RECURSIVE PhpTotalFrom(_, _, _, _, _)
PhpTotalFrom(employee_name, frame, configs, i, php_total_hours) ==
    IF i > Len(configs) THEN php_total_hours
    ELSE PhpTotalFrom(employee_name, frame, configs, i + 1,
             FAdd(php_total_hours,
                  PhpHours(employee_name,
                           LookbackFrame(frame, configs, configs[i].stat_date))))
PhpTotalHours(employee_name, frame, configs, i) ==
    PhpTotalFrom(employee_name, frame, configs, i, FZero)

\* Lines 445-448 on a frame whose Payroll Item column holds no text at all:
\* the column is then a float column and its .str accessor raises
\* AttributeError.  The line is reached when some holiday has capped hours.
AccessorFails(employee_name, frame, configs) ==
    /\ ~ItemColumnIsText(frame)
    /\ \E i \in 1..Len(configs) :
          FPositive(PhpLocals(employee_name,
              LookbackFrame(frame, configs, configs[i].stat_date)).capped_hours)

\* Line 506: the stat dates inside the period
StatDatesInPeriod(configs, p) ==
    {configs[i].stat_date : i \in {j \in 1..Len(configs) :
        p.start <= configs[j].stat_date /\ configs[j].stat_date <= p.end}}

Minimum(S) == CHOOSE x \in S : \A y \in S : x <= y

\* Lines 504-520: the PHP row, if any
PhpRows(name, php_total_hours, configs, p) ==
    IF FPositive(php_total_hours)
    THEN <<OutRow(name, Minimum(StatDatesInPeriod(configs, p)),
                  S_PHP_Holiday, Round2(php_total_hours))>>
    ELSE <<>>

-----------------------------------------------------------------------------
(* process_payroll_data_with_stats: the run *)

StatDates(configs) == [i \in 1..Len(configs) |-> configs[i].stat_date]

IdleEmp ==
    [name |-> <<>>, shifts |-> <<>>, idx |-> 0, rate_code |-> <<>>,
     segs |-> <<>>, buckets |-> NewBuckets, first_date |-> 0, php |-> <<>>]

-----------------------------------------------------------------------------
(* normalize_payroll_dataframe and create_times_lookup on the caller's frames *)

\* A frame object as the callee sees it: its column labels in order and the
\* type of the values of its date column ("text" as read, or "datetime")
FrameObject(cols, dates) == [present |-> TRUE, columns |-> cols, dates |-> dates]
Absent == [present |-> FALSE, columns |-> <<>>, dates |-> "none"]

\* The binding of a name of the callee: to the caller's object (alias) or to
\* a frame of its own
Alias == [alias |-> TRUE, frame |-> Absent]
Own(frame) == [alias |-> FALSE, frame |-> frame]

NoFrames == [df |-> Absent, times_df |-> Absent]
NoBindings == [df |-> Alias, times_df |-> Alias]

HasColumn(frame, col) == \E i \in 1..Len(frame.columns) : frame.columns[i] = col

\* DataFrame.rename(columns={old: new}): a new frame
Renamed(frame, old, new) ==
    [frame EXCEPT !.columns =
        [i \in 1..Len(frame.columns) |->
            IF frame.columns[i] = old THEN new ELSE frame.columns[i]]]

\* df[col] = value on a frame without that column: the column is appended
WithColumn(frame, col) ==
    IF HasColumn(frame, col) THEN frame
    ELSE [frame EXCEPT !.columns = Append(@, col)]

\* df['Transaction Date'] = pd.to_datetime(df['Transaction Date'])
WithDatetime(frame) == [frame EXCEPT !.dates = "datetime"]

\* The frame a binding stands for
Bound(binding, caller_frame) ==
    IF binding.alias THEN caller_frame ELSE binding.frame

\* An assignment into the frame a binding stands for: h is [caller, binding]
Assigned(h, frame) ==
    IF h.binding.alias THEN [h EXCEPT !.caller = frame]
    ELSE [h EXCEPT !.binding = Own(frame)]

\* Lines 208-210: one iteration of the rename loop
RenameIfNeeded(h, old_col, new_col) ==
    LET frame == Bound(h.binding, h.caller)
    IN  IF HasColumn(frame, old_col) /\ ~HasColumn(frame, new_col)
        THEN [h EXCEPT !.binding = Own(Renamed(frame, old_col, new_col))]
        ELSE h

\* Lines 213-220: one default column
DefaultIfMissing(h, col) ==
    Assigned(h, WithColumn(Bound(h.binding, h.caller), col))

\* Lines 197-225
normalize_payroll_dataframe(h) ==
    LET r1 == RenameIfNeeded(h, "Date", "Transaction Date")
        r2 == RenameIfNeeded(r1, "Staff_Last_First", "Name")
        r3 == RenameIfNeeded(r2, "Actual_Total_calc", "Duration")
        r4 == RenameIfNeeded(r3, "Project", "Customer")
        d1 == DefaultIfMissing(r4, "Service Item")
        d2 == DefaultIfMissing(d1, "Class")
        d3 == DefaultIfMissing(d2, "Billable")
        d4 == DefaultIfMissing(d3, "Notes")
    IN  Assigned(d4, WithDatetime(Bound(d4.binding, d4.caller)))

\* Lines 235-238: rename whenever the old column is there
RenameIfPresent(h, old_col, new_col) ==
    LET frame == Bound(h.binding, h.caller)
    IN  IF HasColumn(frame, old_col)
        THEN [h EXCEPT !.binding = Own(Renamed(frame, old_col, new_col))]
        ELSE h

\* Lines 229-240: the head of create_times_lookup
NormalizedTimes(h) ==
    IF ~h.caller.present THEN h
    ELSE LET r1 == RenameIfPresent(h, "Date", "Transaction Date")
             r2 == RenameIfPresent(r1, "Staff_Last_First", "Name")
         IN  Assigned(r2, WithDatetime(Bound(r2.binding, r2.caller)))

\* Lines 269, 534, 676: df = normalize_payroll_dataframe(df), as the frames
\* [df, times_df] of the caller and the bindings of the callee after it
NormalizedCaller(frames, bindings) ==
    LET h == normalize_payroll_dataframe(
                 [caller |-> frames.df, binding |-> bindings.df])
    IN  [frames   |-> [frames EXCEPT !.df = h.caller],
         bindings |-> [bindings EXCEPT !.df = h.binding]]

\* Line 272: times_dict = create_times_lookup(times_df), likewise
LookedUpCaller(frames, bindings) ==
    LET h == NormalizedTimes(
                 [caller |-> frames.times_df, binding |-> bindings.times_df])
    IN  [frames   |-> [frames EXCEPT !.times_df = h.caller],
         bindings |-> [bindings EXCEPT !.times_df = h.binding]]

\* The frames of a caller whose export has the standard column names and
\* its dates as text; tdf is the time-detail feed, or NoFrame
StandardFrames(tdf) ==
    [df |-> FrameObject(<<"Name", "Transaction Date", "Payroll Item",
                          "Duration", "Notes">>, "text"),
     times_df |-> IF tdf.present
                  THEN FrameObject(<<"Name", "Transaction Date",
                                     "Actual_Start", "Actual_End">>, "text")
                  ELSE Absent]

-----------------------------------------------------------------------------
(* process_payroll_data_with_stats: the run *)

\* Lines 268-310: the frame normalised (line 269) and the time details
\* looked up (line 272), both in the caller's frames unless a column was
\* renamed; the rows of the period, sorted by Name and Transaction Date
Prepare ==
    /\ pc = "start"
    /\ LET n == NormalizedCaller(caller, local)
           t == LookedUpCaller(n.frames, n.bindings)
       IN  /\ caller' = t.frames
           /\ local' = t.bindings
    /\ LET sorted == SortByNameDate(RowsBetween(df, period.start, period.end))
       IN  /\ period_df' = sorted
           /\ employees' = UniqueNames(sorted, {})
           /\ stats' = NewStats(Len(sorted))
    /\ processed_rows' = <<>>
    /\ pc' = "employees"
    /\ UNCHANGED <<inputVars, emp, output_df, unionVars,
                   segVars, code_in, code_out>>

\* Lines 312-324: the head of the employee loop
BeginEmployee ==
    /\ pc = "employees"
    /\ employees # <<>>
    /\ ~IsNaText(Head(employees))
    /\ \E employee_shifts \in
              SortByDate(RowsOfName(period_df, Head(employees))) :
          LET name   == Head(employees)
              shifts == IterRows(employee_shifts, ItemColumnIsText(df))
          IN  emp' = [name |-> name, shifts |-> shifts, idx |-> 1,
                      rate_code |-> <<>>, segs |-> <<>>,
                      buckets |-> NewBuckets,
                      first_date |-> shifts[1].Date, php |-> <<>>]
    /\ employees' = Tail(employees)
    /\ stats' = [stats EXCEPT !.employees_processed = @ + 1]
    /\ pc' = "shifts"
    /\ UNCHANGED <<inputVars, period_df, processed_rows,
                   output_df, unionVars, segVars, auxVars>>

\* Lines 312-324 for the missing name (NaN): no row equals it, employee_shifts
\* is empty and .iloc[0] raises IndexError; the call ends without a result
BeginEmployeeError ==
    /\ pc = "employees"
    /\ employees # <<>>
    /\ IsNaText(Head(employees))
    /\ emp' = [IdleEmp EXCEPT !.name = Head(employees)]
    /\ employees' = Tail(employees)
    /\ stats' = [stats EXCEPT !.employees_processed = @ + 1]
    /\ pc' = "error"
    /\ UNCHANGED <<inputVars, period_df, processed_rows,
                   output_df, unionVars, segVars, auxVars>>

\* Lines 326-337: a row that is skipped (no duration, or already marked)
SkipShift ==
    /\ pc = "shifts"
    /\ emp.idx <= Len(emp.shifts)
    /\ LET shift == emp.shifts[emp.idx]
       IN  SkipDuration(shift.Duration) \/ AlreadyMarked(shift.Item)
    /\ emp' = [emp EXCEPT !.idx = @ + 1]
    /\ UNCHANGED <<inputVars, pc, period_df, employees,
                   processed_rows, stats, output_df, unionVars, segVars, auxVars>>

\* Lines 326-351: a row that is split into its segments
SplitShift ==
    /\ pc = "shifts"
    /\ emp.idx <= Len(emp.shifts)
    /\ LET shift == emp.shifts[emp.idx]
           segs  == ShiftSegments(emp.name, shift,
                                  create_times_lookup(times_df),
                                  StatDates(stat_configs))
       IN  /\ ~SkipDuration(shift.Duration)
           /\ ~AlreadyMarked(shift.Item)
           /\ emp' = [emp EXCEPT !.idx = @ + 1, !.rate_code = shift.Item,
                                 !.segs = segs]
           /\ pc' = IF segs = <<>> THEN "shifts" ELSE "segments"
    /\ UNCHANGED <<inputVars, period_df, employees,
                   processed_rows, stats, output_df, unionVars, segVars, auxVars>>

\* Lines 353-401: one iteration of the segment loop
ApplySegment ==
    /\ pc = "segments"
    /\ LET r == AllocateSegment(emp.buckets, stats, emp.rate_code, Head(emp.segs))
       IN  /\ emp' = [emp EXCEPT !.buckets = r.buckets, !.segs = Tail(@)]
           /\ stats' = r.totals
    /\ pc' = IF Tail(emp.segs) = <<>> THEN "shifts" ELSE "segments"
    /\ UNCHANGED <<inputVars, period_df, employees,
                   processed_rows, output_df, unionVars, segVars, auxVars>>

\* Lines 403-520: the end of the employee loop body
FinishEmployee ==
    /\ pc = "shifts"
    /\ emp.idx > Len(emp.shifts)
    /\ ~AccessorFails(emp.name, df, stat_configs)
    /\ LET php  == PhpTotalHours(emp.name, df, stat_configs, 1)
           rows == ConsolidatedRows(emp.name, emp.first_date, emp.buckets)
                   \o PhpRows(emp.name, php, stat_configs, period)
       IN  /\ FPositive(php) => StatDatesInPeriod(stat_configs, period) # {}
           /\ processed_rows' = processed_rows \o rows
           /\ stats' = [stats EXCEPT
                  !.output_lines = @ + Len(rows),
                  !.total_php_hours =
                      IF FPositive(php) THEN FAdd(@, php) ELSE @]
    /\ emp' = [emp EXCEPT !.php = PhpAllLocals(emp.name, df, stat_configs)]
    /\ pc' = "employees"
    /\ UNCHANGED <<inputVars, period_df, employees,
                   output_df, unionVars, segVars, auxVars>>

\* Line 506 with entitlement hours and no stat date inside the period: the
\* consolidated rows are appended and counted (lines 461-501), then min() of
\* an empty list raises ValueError and the call ends without a result
FinishEmployeeError ==
    /\ pc = "shifts"
    /\ emp.idx > Len(emp.shifts)
    /\ ~AccessorFails(emp.name, df, stat_configs)
    /\ FPositive(PhpTotalHours(emp.name, df, stat_configs, 1))
    /\ StatDatesInPeriod(stat_configs, period) = {}
    /\ processed_rows' = processed_rows
           \o ConsolidatedRows(emp.name, emp.first_date, emp.buckets)
    /\ stats' = [stats EXCEPT !.output_lines =
                     @ + Len(ConsolidatedRows(emp.name, emp.first_date,
                                              emp.buckets))]
    /\ emp' = [emp EXCEPT !.php = PhpAllLocals(emp.name, df, stat_configs)]
    /\ pc' = "error"
    /\ UNCHANGED <<inputVars, period_df, employees,
                   output_df, unionVars, segVars, auxVars>>

\* Lines 445-448 on a frame without any text in the Payroll Item column: the
\* .str accessor raises AttributeError inside the holiday loop, before any
\* row of the employee is appended
FinishEmployeeNoText ==
    /\ pc = "shifts"
    /\ emp.idx > Len(emp.shifts)
    /\ AccessorFails(emp.name, df, stat_configs)
    /\ pc' = "error"
    /\ UNCHANGED <<inputVars, period_df, employees, emp,
                   processed_rows, stats, output_df, unionVars, segVars,
                   auxVars>>

\* Lines 522-527
Finish ==
    /\ pc = "employees"
    /\ employees = <<>>
    /\ output_df' = SortByNameItem(processed_rows)
    /\ pc' = "done"
    /\ UNCHANGED <<inputVars, period_df, employees, emp,
                   processed_rows, stats, unionVars, segVars, auxVars>>

-----------------------------------------------------------------------------
(* process_payroll_data_with_stats as a function of its arguments: the same  *)
(* loop bodies, run to the end.  It gives the result of the call on any      *)
(* frame, which the relational claims compare with the run at hand.          *)

\* Lines 353-401: the segment loop
RECURSIVE AllocateSegments(_, _, _, _)
AllocateSegments(b, t, rate_code, segs) ==
    IF segs = <<>> THEN [buckets |-> b, totals |-> t]
    ELSE LET r == AllocateSegment(b, t, rate_code, Head(segs))
         IN  AllocateSegments(r.buckets, r.totals, rate_code, Tail(segs))

\* Lines 326-401: the shift loop
RECURSIVE AllocateShifts(_, _, _, _, _, _)
AllocateShifts(b, t, name, shifts, times_dict, stat_dates) ==
    IF shifts = <<>> THEN [buckets |-> b, totals |-> t]
    ELSE LET shift == Head(shifts) IN
         IF SkipDuration(shift.Duration) \/ AlreadyMarked(shift.Item)
         THEN AllocateShifts(b, t, name, Tail(shifts), times_dict, stat_dates)
         ELSE LET r == AllocateSegments(b, t, shift.Item,
                           ShiftSegments(name, shift, times_dict, stat_dates))
              IN  AllocateShifts(r.buckets, r.totals, name, Tail(shifts),
                                 times_dict, stat_dates)

\* Lines 403-520 after the shift loop of one employee; acc is
\* [rows, stats, error], r the buckets and totals of the shift loop
EndEmployee(acc, name, first_date, r, php, configs, p) ==
    [rows  |-> acc.rows \o ConsolidatedRows(name, first_date, r.buckets)
               \o PhpRows(name, php, configs, p),
     stats |-> [r.totals EXCEPT
                   !.output_lines =
                       @ + Len(ConsolidatedRows(name, first_date, r.buckets))
                         + Len(PhpRows(name, php, configs, p)),
                   !.total_php_hours =
                       IF FPositive(php) THEN FAdd(@, php) ELSE @],
     error |-> FALSE]
\* the same when min() raises at line 506
EndEmployeeError(acc, name, first_date, r) ==
    [rows  |-> acc.rows \o ConsolidatedRows(name, first_date, r.buckets),
     stats |-> [r.totals EXCEPT
                   !.output_lines =
                       @ + Len(ConsolidatedRows(name, first_date, r.buckets))],
     error |-> TRUE]

\* Lines 312-520: the employee loop
RECURSIVE RunEmployees(_, _, _, _, _, _, _)
RunEmployees(names, acc, sorted, frame, tdf, configs, p) ==
    IF names = <<>> \/ acc.error THEN acc
    ELSE IF IsNaText(Head(names))
    THEN [acc EXCEPT !.error = TRUE, !.stats.employees_processed = @ + 1]
    ELSE LET name   == Head(names)
             shifts == IterRows(
                           TheOutcome(SortByDate(RowsOfName(sorted, name))),
                           ItemColumnIsText(frame))
             r      == AllocateShifts(NewBuckets,
                           [acc.stats EXCEPT !.employees_processed = @ + 1],
                           name, shifts, create_times_lookup(tdf),
                           StatDates(configs))
             php    == PhpTotalHours(name, frame, configs, 1)
         IN  IF AccessorFails(name, frame, configs)
             THEN [acc EXCEPT !.error = TRUE, !.stats = r.totals]
             ELSE IF FPositive(php) /\ StatDatesInPeriod(configs, p) = {}
             THEN EndEmployeeError(acc, name, shifts[1].Date, r)
             ELSE RunEmployees(Tail(names),
                      EndEmployee(acc, name, shifts[1].Date, r, php, configs, p),
                      sorted, frame, tdf, configs, p)

\* Lines 257-527: [error, output_df, stats]
process_payroll_data_with_stats(frame, tdf, configs, p) ==
    LET sorted == SortByNameDate(RowsBetween(frame, p.start, p.end))
        r == RunEmployees(UniqueNames(sorted, {}),
                          [rows |-> <<>>, stats |-> NewStats(Len(sorted)),
                           error |-> FALSE],
                          sorted, frame, tdf, configs, p)
    IN  [error     |-> r.error,
         output_df |-> IF r.error THEN <<>> ELSE SortByNameItem(r.rows),
         stats     |-> r.stats,
         rows      |-> r.rows]

\* The run at hand ends as the function says
RunMatchesFunction ==
    LET f == process_payroll_data_with_stats(df, times_df, stat_configs, period)
    IN  /\ pc = "done" => ~f.error /\ output_df = f.output_df /\ stats = f.stats
        /\ pc = "error" => f.error /\ stats = f.stats
                               /\ processed_rows = f.rows

-----------------------------------------------------------------------------
(* The inputs of the payroll run *)

MaxRows == 2                    \* the longest input frame

N_E1 == <<"E", "1">>
N_E2 == <<"E", "2">>
C_20    == <<"2","0"," ","R","a","t","e">>
C_20_OT == <<"2","0"," ","R","a","t","e"," ","O","T","/"," ","S","T","A","T">>

BoundedSeq(S, n) == UNION {[1..k -> S] : k \in 0..n}

\* The first employee: two days, two base codes and a finished code, durations
\* around the threshold, and 64.2 or 7.515 hours on day 1; the second
\* employee: one day, a duration or none, a code or none (7.504 or 85 hours);
\* a row without a name.
PayrollRows ==
    {Row(N_E1, d, c, h, <<>>) :
        d \in {1, 2}, c \in {C_20, S_Regular, C_20_OT},
        h \in {FZero, H(10), H(85), H(88)}}
    \cup {Row(N_E1, 1, C_20, h, <<>>) : h \in {HM(64, 200), HM(7, 515)}}
    \cup {Row(N_E2, 1, C_20, h, <<>>) : h \in {NaNDur, HM(7, 504)}}
    \cup {Row(N_E2, 1, NaNText, h, <<>>) : h \in {HM(7, 504), H(85)}}
    \cup {Row(NaNText, 1, C_20, H(10), <<>>)}

\* No time details; 20:00-04:00 for the first employee's second day; or
\* 12:06-11:54, which is 11.9 hours on either side of midnight, followed by
\* a row without a name and a row without a date
TimesChoices ==
    {NoFrame,
     TimesFrame(<<TimesRow(N_E1, 2, TimeOf(20, 0, 0), TimeOf(4, 0, 0))>>),
     TimesFrame(<<TimesRow(N_E1, 2, TimeOf(12, 6, 0), TimeOf(11, 54, 0)),
                  TimesRow(NaNText, 2, TimeOf(20, 0, 0), TimeOf(4, 0, 0)),
                  TimesRow(N_E1, NaT, TimeOf(20, 0, 0), TimeOf(4, 0, 0))>>)}

StatConfig(d, lo, hi) == [stat_date |-> d, php_start |-> lo, php_end |-> hi]
\* No holiday; day 2 a holiday with an empty lookback window; day 3 a holiday
\* looking back on days 1-2; a holiday after the period looking back on day 1
StatChoices ==
    {<<>>, <<StatConfig(2, 0, 0)>>, <<StatConfig(3, 1, 2)>>,
     <<StatConfig(4, 1, 1)>>}

IdleStats == NewStats(0)

RunIdle ==
    /\ period_df = <<>>
    /\ employees = <<>>
    /\ emp = IdleEmp
    /\ processed_rows = <<>>
    /\ stats = IdleStats
    /\ output_df = <<>>

IdleUnionLocals ==
    [name |-> <<>>, week1_actual |-> FZero, week2_actual |-> FZero,
     week1_payable |-> FZero, week2_payable |-> FZero,
     total_payable |-> FZero, total_cost |-> FZero,
     week1_numpy |-> FALSE, week2_numpy |-> FALSE]

UnionIdle ==
    /\ union_locals = IdleUnionLocals
    /\ union_out = <<>>

NoCall == [shift_date |-> 0, start_time |-> NoTime, end_time |-> NoTime,
           total_hours |-> FZero, stat_dates |-> <<>>]
NoResult == [returned |-> FALSE, segments |-> <<>>]

SegIdle ==
    /\ seg_in = NoCall
    /\ seg_out = NoResult

AuxIdle ==
    /\ code_in = <<>>
    /\ code_out = <<>>
    /\ caller = NoFrames
    /\ local = NoBindings

\* Before a run: the caller holds its frames, the callee has bound nothing
AuxStart ==
    /\ code_in = <<>>
    /\ code_out = <<>>
    /\ caller = StandardFrames(times_df)
    /\ local = NoBindings

Init ==
    /\ df \in BoundedSeq(PayrollRows, MaxRows)
    /\ times_df \in TimesChoices
    /\ stat_configs \in StatChoices
    /\ period = [start |-> 1, end |-> 3]
    /\ pc = "start"
    /\ RunIdle
    /\ UnionIdle
    /\ SegIdle
    /\ AuxStart

Next ==
    \/ Prepare
    \/ BeginEmployee
    \/ SkipShift
    \/ SplitShift
    \/ ApplySegment
    \/ FinishEmployee
    \/ FinishEmployeeError
    \/ FinishEmployeeNoText
    \/ BeginEmployeeError
    \/ Finish

Spec == Init /\ [][Next]_vars

-----------------------------------------------------------------------------
(* The payroll run on frames made for the entitlement: long lookback rows,   *)
(* notes with a vacation percentage, several holiday configurations          *)

Note_2pct     == <<"2", "%">>
Note_6percent == <<"6", " ", "p", "e", "r", "c", "e", "n", "t">>

\* The first employee: 76 or 100 hours on day 1 or 2 under two base codes,
\* with or without a "2%" note; a finished row; "6 percent" on a row without
\* hours and on a row with hours.  The second employee: 100 hours on day 1,
\* with a code or without.  A row without a name.
EntitlementRows ==
    {Row(N_E1, d, c, h, n) :
        d \in {1, 2}, c \in {C_20, S_Regular},
        h \in {H(76), H(100)}, n \in {NaNText, Note_2pct}}
    \cup {Row(N_E1, 1, C_20_OT, H(100), NaNText),
          Row(N_E1, 1, C_20, FZero, Note_6percent),
          Row(N_E1, 2, C_20, H(76), Note_6percent),
          Row(N_E2, 1, S_Regular, H(100), NaNText),
          Row(N_E2, 1, NaNText, H(100), NaNText),
          Row(NaNText, 1, C_20, H(100), NaNText)}

\* No holiday; day 3 looking back on days 1-2, or on day 1 only; a holiday
\* after the period; two holidays inside the period, the later one first
EntitlementConfigs ==
    {<<>>,
     <<StatConfig(3, 1, 2)>>,
     <<StatConfig(3, 1, 1)>>,
     <<StatConfig(4, 1, 2)>>,
     <<StatConfig(3, 1, 2), StatConfig(2, 1, 1)>>}

InitPhp ==
    /\ df \in BoundedSeq(EntitlementRows, MaxRows)
    /\ times_df = NoFrame
    /\ stat_configs \in EntitlementConfigs
    /\ period = [start |-> 1, end |-> 3]
    /\ pc = "start"
    /\ RunIdle
    /\ UnionIdle
    /\ SegIdle
    /\ AuxStart

SpecPhp == InitPhp /\ [][Next]_vars

-----------------------------------------------------------------------------
(* calculate_union_benefits *)

UNION_CAP == H(44)              \* the literal 44 of lines 709-710

\* A variant of MinDate over the rows of positive duration only
MinDate_Positive(rows) ==
    Minimum({rows[i].Date : i \in {j \in 1..Len(rows) :
                 FPositive(rows[j].Duration)}})

\* Line 682: Series.min() over every row of the frame
MinDate(rows) == Minimum({rows[i].Date : i \in 1..Len(rows)})

\* Lines 692-695: Duration.notna() & (Duration > 0)
RECURSIVE RowsWithDuration(_)
RowsWithDuration(rows) ==
    IF rows = <<>> THEN <<>>
    ELSE (IF FPositive(Head(rows).Duration)
          THEN <<Head(rows)>> ELSE <<>>)
         \o RowsWithDuration(Tail(rows))

\* Lines 701-702
RECURSIVE RowsUpTo(_, _)
RowsUpTo(rows, last) ==
    IF rows = <<>> THEN <<>>
    ELSE (IF Head(rows).Date <= last THEN <<Head(rows)>> ELSE <<>>)
         \o RowsUpTo(Tail(rows), last)
RECURSIVE RowsAfter(_, _)
RowsAfter(rows, last) ==
    IF rows = <<>> THEN <<>>
    ELSE (IF Head(rows).Date > last THEN <<Head(rows)>> ELSE <<>>)
         \o RowsAfter(Tail(rows), last)

UNION_RATE == FDec(80, 100)             \* the literal 0.80 of line 714

\* res += a[i] over the values of a sequence, in order
RECURSIVE AddEach(_, _)
AddEach(res, a) ==
    IF a = <<>> THEN res ELSE AddEach(FAdd(res, Head(a)), Tail(a))

\* The running sum r[j] over a[j], a[j + 8], ... of the first full values
RECURSIVE LaneSum(_, _, _, _)
LaneSum(a, full, i, r) ==
    IF i > full THEN r ELSE LaneSum(a, full, i + 8, FAdd(r, a[i]))

\* numpy adds the values of a float column by pairwise summation
\* (pairwise_sum): fewer than 8 values are added in order from 0.0; up to 128
\* values go to eight running sums that are added as
\* ((r0 + r1) + (r2 + r3)) + ((r4 + r5) + (r6 + r7)), the values after the
\* last full eight in order behind; more values are halved at a multiple
\* of 8
RECURSIVE PairwiseSum(_)
PairwiseSum(a) ==
    LET n == Len(a)
    IN  IF n < 8 THEN AddEach(FZero, a)
        ELSE IF n <= 128
        THEN LET full == n - (n % 8)
                 r == [j \in 1..8 |-> LaneSum(a, full, j + 8, a[j])]
                 res == FAdd(FAdd(FAdd(r[1], r[2]), FAdd(r[3], r[4])),
                             FAdd(FAdd(r[5], r[6]), FAdd(r[7], r[8])))
             IN  AddEach(res, SubSeq(a, full + 1, n))
        ELSE LET n2 == (n \div 2) - ((n \div 2) % 8)
             IN  FAdd(PairwiseSum(SubSeq(a, 1, n2)),
                      PairwiseSum(SubSeq(a, n2 + 1, n)))

\* Lines 705-706: week_shifts['Duration'].sum() of rows that all have a
\* positive duration
SeriesSum(rows) == PairwiseSum([i \in 1..Len(rows) |-> rows[i].Duration])

\* Lines 705-706, 712-714 with the payable hours of the two weeks.  A week
\* with rows has a numpy.float64 sum; a week without rows has the int 0.
UnionTotals(name, week1_shifts, week2_shifts, week1_payable, week2_payable) ==
    [name |-> name,
     week1_actual  |-> SeriesSum(week1_shifts),
     week2_actual  |-> SeriesSum(week2_shifts),
     week1_payable |-> week1_payable,
     week2_payable |-> week2_payable,
     total_payable |-> FAdd(week1_payable, week2_payable),
     total_cost    |-> FMul(FAdd(week1_payable, week2_payable), UNION_RATE),
     week1_numpy   |-> Len(week1_shifts) > 0,
     week2_numpy   |-> Len(week2_shifts) > 0]

\* A variant of WeekPayable without the cap
WeekPayable_NoCap(week_actual) == week_actual

\* Lines 709-710: min(week_actual, 44)
WeekPayable(week_actual) ==
    IF FLess(UNION_CAP, week_actual) THEN UNION_CAP ELSE week_actual

\* Lines 705-710
UnionWeeks(name, week1_shifts, week2_shifts) ==
    UnionTotals(name, week1_shifts, week2_shifts,
                WeekPayable(SeriesSum(week1_shifts)),
                WeekPayable(SeriesSum(week2_shifts)))

\* Lines 700-714: the figures of one employee
UnionFigures(name, employee_shifts, week1_end) ==
    UnionWeeks(name, RowsUpTo(employee_shifts, week1_end),
               RowsAfter(employee_shifts, week1_end))

\* round(x, 2) as lines 718-723 meet it: on a numpy.float64 it is
\* rint(x * 100) / 100, on an int or a float it is the built-in round
RoundAs(numpy, x) == IF numpy THEN NpRound2(x) ELSE Round2(x)

\* A payable figure is the numpy sum unless the cap, the int 44, replaced it
PayableIsNumpy(week_numpy, week_actual) ==
    week_numpy /\ ~FLess(UNION_CAP, week_actual)
\* The total is a numpy.float64 when one of its terms is
TotalIsNumpy(f) ==
    \/ PayableIsNumpy(f.week1_numpy, f.week1_actual)
    \/ PayableIsNumpy(f.week2_numpy, f.week2_actual)

\* Lines 716-724: the result row, every figure rounded to 2 places
UnionRow(f) ==
    [Name |-> f.name,
     Week1Actual  |-> RoundAs(f.week1_numpy, f.week1_actual),
     Week1Payable |-> RoundAs(PayableIsNumpy(f.week1_numpy, f.week1_actual),
                              f.week1_payable),
     Week2Actual  |-> RoundAs(f.week2_numpy, f.week2_actual),
     Week2Payable |-> RoundAs(PayableIsNumpy(f.week2_numpy, f.week2_actual),
                              f.week2_payable),
     TotalPayable |-> RoundAs(TotalIsNumpy(f), f.total_payable),
     TotalCost    |-> RoundAs(TotalIsNumpy(f), f.total_cost)]

\* Lines 675-685: the frame normalised (line 676), in the caller's frame
\* unless a column was renamed, and sorted by Name and Transaction Date
UnionPrepare ==
    /\ pc = "union start"
    /\ LET n == NormalizedCaller(caller, local)
       IN  /\ caller' = n.frames
           /\ local' = n.bindings
    /\ LET sorted == SortByNameDate(df)
       IN  /\ period_df' = sorted
           /\ employees' = UniqueNames(sorted, {})
    /\ union_out' = <<>>
    /\ pc' = "union employees"
    /\ UNCHANGED <<inputVars, emp, processed_rows, stats, output_df,
                   union_locals, segVars, code_in, code_out>>

\* Lines 687-698: an employee without any row of positive duration
UnionSkipEmployee ==
    /\ pc = "union employees"
    /\ employees # <<>>
    /\ RowsWithDuration(RowsOfName(period_df, Head(employees))) = <<>>
    /\ employees' = Tail(employees)
    /\ UNCHANGED <<inputVars, pc, period_df, emp, processed_rows, stats,
                   output_df, unionVars, segVars, auxVars>>

\* Lines 687-724: an employee with rows of positive duration
UnionEmployee ==
    /\ pc = "union employees"
    /\ employees # <<>>
    /\ LET name == Head(employees)
           employee_shifts == RowsWithDuration(RowsOfName(period_df, name))
           f == UnionFigures(name, employee_shifts, MinDate(period_df) + 6)
       IN  /\ employee_shifts # <<>>
           /\ union_locals' = f
           /\ union_out' = Append(union_out, UnionRow(f))
    /\ employees' = Tail(employees)
    /\ UNCHANGED <<inputVars, pc, period_df, emp, processed_rows, stats,
                   output_df, segVars, auxVars>>

\* Line 726
UnionFinish ==
    /\ pc = "union employees"
    /\ employees = <<>>
    /\ pc' = "union done"
    /\ UNCHANGED <<inputVars, runVars, unionVars, segVars, auxVars>>

\* Two weeks of records: days 1-7 are the first week when a day-1 row exists
UnionRows ==
    {Row(N_E1, d, C_20, h, <<>>) :
        d \in {1, 7, 8}, h \in {FZero, H(30), H(50)}}
    \cup {Row(N_E2, d, S_Regular, h, <<>>) :
        d \in {2, 8}, h \in {NaNDur, HM(7, 984)}}

InitUnion ==
    /\ df \in BoundedSeq(UnionRows, MaxRows)
    /\ times_df = NoFrame
    /\ stat_configs = <<>>
    /\ period = [start |-> 0, end |-> 0]
    /\ pc = "union start"
    /\ RunIdle
    /\ UnionIdle
    /\ SegIdle
    /\ AuxStart

NextUnion ==
    \/ UnionPrepare
    \/ UnionSkipEmployee
    \/ UnionEmployee
    \/ UnionFinish

SpecUnion == InitUnion /\ [][NextUnion]_vars

-----------------------------------------------------------------------------
(* One call of split_shift_with_times *)

Txt_20_00_00 == <<"2","0",":","0","0",":","0","0">>
Txt_04_30_00 == <<"0","4",":","3","0",":","0","0">>
Txt_20_00    == <<"2","0",":","0","0">>
Txt_25_00_00 == <<"2","5",":","0","0",":","0","0">>
Txt_8pm      == <<"8","p","m">>
Txt_4_30_0   == <<" ","4",":","3","0"," ",":","+","0">>     \* int() takes these

TimeCells ==
    {NoTime}
    \cup {TimeOf(h, 0, 0) : h \in {0, 4, 9, 17, 20}}
    \cup {TimeOf(23, 30, 0), TimeOf(11, 54, 0), TimeOf(0, 0, 1)}
    \cup {TimeStr(t) : t \in {Txt_20_00_00, Txt_04_30_00, Txt_4_30_0,
                              Txt_20_00, Txt_25_00_00, Txt_8pm}}

SegmentCall ==
    /\ pc = "segmenter"
    /\ seg_out = NoResult
    /\ seg_out' = [returned |-> TRUE,
                   segments |-> split_shift_with_times(seg_in.shift_date,
                                    seg_in.start_time, seg_in.end_time,
                                    seg_in.total_hours, seg_in.stat_dates)]
    /\ UNCHANGED <<inputVars, pc, runVars, unionVars, seg_in,
                   auxVars>>

InitSeg ==
    /\ seg_in \in [shift_date  : {1, 2},
                   start_time  : TimeCells,
                   end_time    : TimeCells,
                   total_hours : {H(8), HM(7, 984)},
                   stat_dates  : {<<>>, <<2>>, <<1, 3>>}]
    /\ seg_out = NoResult
    /\ df = <<>>
    /\ times_df = NoFrame
    /\ stat_configs = <<>>
    /\ period = [start |-> 0, end |-> 0]
    /\ pc = "segmenter"
    /\ RunIdle
    /\ UnionIdle
    /\ AuxIdle

NextSeg == SegmentCall

SpecSeg == InitSeg /\ [][NextSeg]_vars

-----------------------------------------------------------------------------
(* Properties *)

Keys(d) == {d[i].key : i \in 1..Len(d)}

\* The hours of a dict added up in insertion order
RECURSIVE DictSumFrom(_, _)
DictSumFrom(d, acc) ==
    IF d = <<>> THEN acc ELSE DictSumFrom(Tail(d), FAdd(acc, Head(d).val))
DictSum(d) == DictSumFrom(d, FZero)

\* min and max of two amounts
FLeast(a, b) == IF FLess(b, a) THEN b ELSE a
FGreatest(a, b) == IF FLess(a, b) THEN b ELSE a

\* Two amounts of hours that differ by the rounding of binary floating point
\* at most: by less than 2^-30 of an hour
Tolerance == FCanon(1, <<1>>, 0 - 30)
SameHours(x, y) ==
    /\ FLessEq(FSub(x, y), Tolerance)
    /\ FLessEq(FSub(y, x), Tolerance)

\* Dict d2 is dict d with x more hours under key k and nothing else changed
AddedUnder(d, d2, k, x) ==
    /\ Keys(d2) = Keys(d) \cup {k}
    /\ \A q \in Keys(d2) :
           DictGet(d2, q) = FAdd(DictGet(d, q), IF q = k THEN x ELSE FZero)

\* The overtime/statutory label of the base codes of the input
\* ("Regular" has its own literal; the others get " OT/ STAT" appended; a
\* missing code has no text to append to and stays the missing code it is)
ExpectedVariant(code) ==
    IF IsNaText(code) THEN code
    ELSE IF code = S_Regular THEN S_HourlyOT ELSE code \o S_sp_OT_sp_STAT

\* C1: a non-statutory segment of h hours met at cumulative counter c goes to
\* regular under its own code when c + h <= 88, to overtime under the
\* overtime label when c >= 88, and is otherwise split into 88 - c regular and
\* h - (88 - c) overtime hours; in every case the counter becomes c + h and
\* nothing else changes (85 + 10 gives 3 regular / 7 overtime, 88 + 10 gives
\* 0 / 10).
C1_ThresholdSplit ==
    [][(pc = "segments" /\ ~Head(emp.segs).is_stat) =>
        LET c    == emp.buckets.cumulative_regular_hours
            h    == Head(emp.segs).hours
            code == emp.rate_code
            b    == emp.buckets
            b2   == emp'.buckets
        IN  /\ b2.cumulative_regular_hours = FAdd(c, h)
            /\ b2.stat_hours = b.stat_hours
            /\ IF FLessEq(FAdd(c, h), H(88))
               THEN /\ AddedUnder(b.regular_hours, b2.regular_hours, code, h)
                    /\ b2.overtime_hours = b.overtime_hours
               ELSE IF FLessEq(H(88), c)
               THEN /\ b2.regular_hours = b.regular_hours
                    /\ AddedUnder(b.overtime_hours, b2.overtime_hours,
                                  ExpectedVariant(code), h)
               ELSE /\ AddedUnder(b.regular_hours, b2.regular_hours, code,
                                  FSub(H(88), c))
                    /\ AddedUnder(b.overtime_hours, b2.overtime_hours,
                                  ExpectedVariant(code),
                                  FSub(h, FSub(H(88), c)))
            /\ (c = H(85) /\ h = H(10)) =>
                   /\ DictSum(b2.regular_hours) =
                          FAdd(DictSum(b.regular_hours), H(3))
                   /\ DictSum(b2.overtime_hours) =
                          FAdd(DictSum(b.overtime_hours), H(7))
            /\ (c = H(88) /\ h = H(10)) =>
                   /\ DictSum(b2.regular_hours) = DictSum(b.regular_hours)
                   /\ DictSum(b2.overtime_hours) =
                          FAdd(DictSum(b.overtime_hours), H(10))
    ]_vars

\* A 10-hour segment met at 85 hours has been split 3 / 7
W_C1_SplitAt85 ==
    /\ pc = "shifts"
    /\ emp.buckets.cumulative_regular_hours = H(95)
    /\ DictSum(emp.buckets.regular_hours) = H(88)
    /\ DictSum(emp.buckets.overtime_hours) = H(7)

\* C2: a statutory segment of h hours adds h to the statutory bucket under the
\* overtime label of its code and leaves the 88-hour counter, the regular
\* bucket and the overtime bucket as they were.
C2_StatutoryFrame ==
    [][(pc = "segments" /\ Head(emp.segs).is_stat) =>
        LET b  == emp.buckets
            b2 == emp'.buckets
        IN  /\ b2.cumulative_regular_hours = b.cumulative_regular_hours
            /\ b2.regular_hours = b.regular_hours
            /\ b2.overtime_hours = b.overtime_hours
            /\ AddedUnder(b.stat_hours, b2.stat_hours,
                          ExpectedVariant(emp.rate_code), Head(emp.segs).hours)
    ]_vars

\* 85 statutory hours were booked after the counter had reached 88
W_C2_StatAfterThreshold ==
    /\ pc = "shifts"
    /\ emp.buckets.cumulative_regular_hours = H(88)
    /\ DictSum(emp.buckets.stat_hours) = H(85)

\* The (employee, rate-code, hours) lines of a result
Lines(rows) ==
    {<<rows[i].Name, rows[i].Item, rows[i].Duration>> : i \in 1..Len(rows)}

Reorderings(n) ==
    {f \in [1..n -> 1..n] : \A i, j \in 1..n : i # j => f[i] # f[j]}
Permuted(frame, f) == [i \in 1..Len(frame) |-> frame[f[i]]]

\* The call on another frame, everything else as in the run at hand
ResultOn(frame) ==
    process_payroll_data_with_stats(frame, times_df, stat_configs, period)

\* C3 as claimed: the lines of the result (employee, rate-code, hours) are
\* the same for every permutation of the input records, also one that
\* reorders two records of one employee and one date with different
\* rate-codes around the 88-hour threshold.
CE_C3_AnyPermutation ==
    pc = "done" =>
        \A f \in Reorderings(Len(df)) :
            LET r == ResultOn(Permuted(df, f))
            IN  ~r.error /\ Lines(r.output_df) = Lines(output_df)

\* C4 as claimed: every input row that already carries an OT, STAT or PHP
\* marker appears in the result with the same label and the same hours.
CE_C4_MarkedRowsPassThrough ==
    pc = "done" =>
        \A i \in 1..Len(df) :
            (/\ AlreadyMarked(df[i].Item)
             /\ ~SkipDuration(df[i].Duration)
             /\ period.start <= df[i].Date /\ df[i].Date <= period.end)
            => \E k \in 1..Len(output_df) :
                   /\ output_df[k].Name = df[i].Name
                   /\ output_df[k].Item = df[i].Item
                   /\ output_df[k].Duration = df[i].Duration

\* frame without its records of zero or missing duration
RECURSIVE WithoutEmptyShifts(_)
WithoutEmptyShifts(frame) ==
    IF frame = <<>> THEN <<>>
    ELSE (IF SkipDuration(Head(frame).Duration) THEN <<>> ELSE <<Head(frame)>>)
         \o WithoutEmptyShifts(Tail(frame))

\* C5 as claimed: records of zero or missing duration change no bucket and no
\* statistic: the lines and the statistics of the run are those of the run
\* without these records.
CE_C5_EmptyShiftsNotCounted ==
    pc = "done" =>
        /\ Lines(output_df) = Lines(ResultOn(WithoutEmptyShifts(df)).output_df)
        /\ stats = ResultOn(WithoutEmptyShifts(df)).stats

\* C8 as claimed: the result holds at most one line per (employee, rate-code).
CE_C8_OneLinePerCode ==
    pc = "done" =>
        \A i, j \in 1..Len(output_df) :
            (output_df[i].Name = output_df[j].Name
             /\ output_df[i].Item = output_df[j].Item) => i = j

-----------------------------------------------------------------------------
(* get_ot_stat_code applied to a code and again to its own result *)

C_25    == <<"2","5"," ","R","a","t","e">>
C_2175_Rate == <<"2","1",".","7","5"," ","R","a","t","e">>
S_spaced_Regular == <<" ","R","e","g","u","l","a","r"," ">>
S_Regular_CR == <<"R","E","G","U","L","A","R","\r">>
S_sp_OT   == <<" ","O","T">>
S_sp_STAT == <<" ","S","T","A","T">>

\* Base codes of the three branches, bare or with a marker already appended
VariantCodes ==
    {NaNText}
    \cup {b \o x :
            b \in {S_Regular, S_regular, S_spaced_Regular, S_Regular_CR,
                   C_20, C_25,
                   S_2175, C_2175_Rate, S_HourlyOT},
            x \in {<<>>, S_sp_OT_STAT, S_sp_OT_sp_STAT, S_sp_OT, S_sp_STAT}}

\* One call: of the argument first, of the last return value afterwards
VariantCall ==
    /\ pc = "variant"
    /\ Len(code_out) < 2
    /\ code_out' = Append(code_out,
                          get_ot_stat_code(IF code_out = <<>> THEN code_in
                                           ELSE code_out[Len(code_out)]))
    /\ UNCHANGED <<inputVars, pc, runVars, unionVars, segVars, code_in,
                   caller, local>>

InitVariant ==
    /\ code_in \in VariantCodes
    /\ code_out = <<>>
    /\ caller = NoFrames
    /\ local = NoBindings
    /\ df = <<>>
    /\ times_df = NoFrame
    /\ stat_configs = <<>>
    /\ period = [start |-> 0, end |-> 0]
    /\ pc = "variant"
    /\ RunIdle
    /\ UnionIdle
    /\ SegIdle

NextVariant == VariantCall

SpecVariant == InitVariant /\ [][NextVariant]_vars

-----------------------------------------------------------------------------
(* process_payroll_data: the run for periods without a holiday *)

S_PHPHoliday == <<"P","H","P","(","H","o","l","i","d","a","y",")">>

\* Lines 558-561
PlainBuckets ==
    [cumulative_hours |-> FZero,
     regular_hours  |-> <<>>,
     overtime_hours |-> <<>>,
     php_hours      |-> <<>>]

\* Lines 541-548
PlainStats(input_shifts) ==
    [employees_processed |-> 0,
     input_shifts        |-> input_shifts,
     output_lines        |-> 0,
     total_regular_hours |-> FZero,
     total_ot_hours      |-> FZero,
     total_php_hours     |-> FZero]

\* Line 573
IsPhpItem(rate_code) == rate_code = S_PHP_Holiday \/ rate_code = S_PHPHoliday

\* Lines 574-578: a holiday-pay row passes through
PlainPhp(b, t, rate_code, shift_hours) ==
    [buckets |-> [b EXCEPT !.php_hours = DictAdd(@, rate_code, shift_hours)],
     totals  |-> [t EXCEPT !.total_php_hours = FAdd(@, shift_hours)]]

\* Lines 600-616: the two portions into their buckets
PlainSplit(b, t, rate_code, shift_hours, regular_portion, overtime_portion) ==
    [buckets |-> [b EXCEPT
         !.regular_hours = DictAdd(@, rate_code, regular_portion),
         !.overtime_hours =
             DictAdd(@, get_ot_stat_code(rate_code), overtime_portion),
         !.cumulative_hours = FAdd(@, shift_hours)],
     totals  |-> [t EXCEPT
         !.total_regular_hours = FAdd(@, regular_portion),
         !.total_ot_hours = FAdd(@, overtime_portion)]]

\* Lines 601-602
PlainSplitAtThreshold(b, t, rate_code, shift_hours, regular_portion) ==
    PlainSplit(b, t, rate_code, shift_hours, regular_portion,
               FSub(shift_hours, regular_portion))

\* Lines 580-618: a shift against the 88-hour threshold
PlainAllocate(b, t, rate_code, shift_hours) ==
    IF FLessEq(FAdd(b.cumulative_hours, shift_hours), OT_THRESHOLD)
    THEN [buckets |-> [b EXCEPT
              !.regular_hours = DictAdd(@, rate_code, shift_hours),
              !.cumulative_hours = FAdd(@, shift_hours)],
          totals  |-> [t EXCEPT !.total_regular_hours = FAdd(@, shift_hours)]]
    ELSE IF FLessEq(OT_THRESHOLD, b.cumulative_hours)
    THEN [buckets |-> [b EXCEPT
              !.overtime_hours =
                  DictAdd(@, get_ot_stat_code(rate_code), shift_hours),
              !.cumulative_hours = FAdd(@, shift_hours)],
          totals  |-> [t EXCEPT !.total_ot_hours = FAdd(@, shift_hours)]]
    ELSE PlainSplitAtThreshold(b, t, rate_code, shift_hours,
                               FSub(OT_THRESHOLD, b.cumulative_hours))

\* Lines 620-661: one row per key of each of the three dicts, hours as summed
PlainBucketRows(name, first_date, d) ==
    [i \in 1..Len(d) |-> OutRow(name, first_date, d[i].key, d[i].val)]

PlainRows(name, first_date, b) ==
    PlainBucketRows(name, first_date, b.regular_hours)
    \o PlainBucketRows(name, first_date, b.overtime_hours)
    \o PlainBucketRows(name, first_date, b.php_hours)

\* Lines 533-548: the frame normalised (line 534), in the caller's frame
\* unless a column was renamed, and sorted by Name and Transaction Date
PlainPrepare ==
    /\ pc = "plain start"
    /\ LET n == NormalizedCaller(caller, local)
       IN  /\ caller' = n.frames
           /\ local' = n.bindings
    /\ LET sorted == SortByNameDate(df)
       IN  /\ period_df' = sorted
           /\ employees' = UniqueNames(sorted, {})
           /\ stats' = PlainStats(Len(sorted))
    /\ processed_rows' = <<>>
    /\ pc' = "plain employees"
    /\ UNCHANGED <<inputVars, emp, output_df, unionVars, segVars,
                   code_in, code_out>>

\* Lines 550-562: the head of the employee loop
PlainBeginEmployee ==
    /\ pc = "plain employees"
    /\ employees # <<>>
    /\ ~IsNaText(Head(employees))
    /\ \E employee_shifts \in
              SortByDate(RowsOfName(period_df, Head(employees))) :
          LET name   == Head(employees)
              shifts == IterRows(employee_shifts, ItemColumnIsText(df))
          IN  emp' = [name |-> name, shifts |-> shifts, idx |-> 1,
                      rate_code |-> <<>>, segs |-> <<>>,
                      buckets |-> PlainBuckets,
                      first_date |-> shifts[1].Date, php |-> <<>>]
    /\ employees' = Tail(employees)
    /\ stats' = [stats EXCEPT !.employees_processed = @ + 1]
    /\ pc' = "plain shifts"
    /\ UNCHANGED <<inputVars, period_df, processed_rows,
                   output_df, unionVars, segVars, auxVars>>

\* Lines 550-562 for the missing name (NaN): employee_shifts is empty and
\* .iloc[0] raises IndexError
PlainBeginEmployeeError ==
    /\ pc = "plain employees"
    /\ employees # <<>>
    /\ IsNaText(Head(employees))
    /\ emp' = [IdleEmp EXCEPT !.name = Head(employees)]
    /\ employees' = Tail(employees)
    /\ stats' = [stats EXCEPT !.employees_processed = @ + 1]
    /\ pc' = "plain error"
    /\ UNCHANGED <<inputVars, period_df, processed_rows,
                   output_df, unionVars, segVars, auxVars>>

\* Lines 564-570: a row without a duration
PlainSkipShift ==
    /\ pc = "plain shifts"
    /\ emp.idx <= Len(emp.shifts)
    /\ SkipDuration(emp.shifts[emp.idx].Duration)
    /\ emp' = [emp EXCEPT !.idx = @ + 1]
    /\ UNCHANGED <<inputVars, pc, period_df, employees,
                   processed_rows, stats, output_df, unionVars, segVars, auxVars>>

\* Lines 564-578: a holiday-pay row
PlainPhpShift ==
    /\ pc = "plain shifts"
    /\ emp.idx <= Len(emp.shifts)
    /\ LET shift == emp.shifts[emp.idx]
           r     == PlainPhp(emp.buckets, stats, shift.Item, shift.Duration)
       IN  /\ ~SkipDuration(shift.Duration)
           /\ IsPhpItem(shift.Item)
           /\ emp' = [emp EXCEPT !.idx = @ + 1, !.rate_code = shift.Item,
                                 !.buckets = r.buckets]
           /\ stats' = r.totals
    /\ UNCHANGED <<inputVars, pc, period_df, employees,
                   processed_rows, output_df, unionVars, segVars, auxVars>>

\* Lines 564-618: any other row
PlainShift ==
    /\ pc = "plain shifts"
    /\ emp.idx <= Len(emp.shifts)
    /\ LET shift == emp.shifts[emp.idx]
           r     == PlainAllocate(emp.buckets, stats, shift.Item, shift.Duration)
       IN  /\ ~SkipDuration(shift.Duration)
           /\ ~IsPhpItem(shift.Item)
           /\ emp' = [emp EXCEPT !.idx = @ + 1, !.rate_code = shift.Item,
                                 !.buckets = r.buckets]
           /\ stats' = r.totals
    /\ UNCHANGED <<inputVars, pc, period_df, employees,
                   processed_rows, output_df, unionVars, segVars, auxVars>>

\* Lines 620-661: the end of the employee loop body
PlainFinishEmployee ==
    /\ pc = "plain shifts"
    /\ emp.idx > Len(emp.shifts)
    /\ LET rows == PlainRows(emp.name, emp.first_date, emp.buckets)
       IN  /\ processed_rows' = processed_rows \o rows
           /\ stats' = [stats EXCEPT !.output_lines = @ + Len(rows)]
    /\ pc' = "plain employees"
    /\ UNCHANGED <<inputVars, period_df, employees, emp,
                   output_df, unionVars, segVars, auxVars>>

\* Lines 663-668
PlainFinish ==
    /\ pc = "plain employees"
    /\ employees = <<>>
    /\ output_df' = SortByNameItem(processed_rows)
    /\ pc' = "plain done"
    /\ UNCHANGED <<inputVars, period_df, employees, emp,
                   processed_rows, stats, unionVars, segVars, auxVars>>

\* Lines 564-618: the shift loop
RECURSIVE PlainShifts(_, _, _)
PlainShifts(b, t, shifts) ==
    IF shifts = <<>> THEN [buckets |-> b, totals |-> t]
    ELSE IF SkipDuration(Head(shifts).Duration)
    THEN PlainShifts(b, t, Tail(shifts))
    ELSE IF IsPhpItem(Head(shifts).Item)
    THEN PlainShifts(
             PlainPhp(b, t, Head(shifts).Item, Head(shifts).Duration).buckets,
             PlainPhp(b, t, Head(shifts).Item, Head(shifts).Duration).totals,
             Tail(shifts))
    ELSE PlainShifts(
             PlainAllocate(b, t, Head(shifts).Item, Head(shifts).Duration).buckets,
             PlainAllocate(b, t, Head(shifts).Item, Head(shifts).Duration).totals,
             Tail(shifts))

\* Lines 550-661: the employee loop; acc is [rows, stats, error]
RECURSIVE PlainEmployees(_, _, _, _)
PlainEmployees(names, acc, sorted, item_is_text) ==
    IF names = <<>> \/ acc.error THEN acc
    ELSE IF IsNaText(Head(names))
    THEN [acc EXCEPT !.error = TRUE, !.stats.employees_processed = @ + 1]
    ELSE LET name   == Head(names)
             shifts == IterRows(
                           TheOutcome(SortByDate(RowsOfName(sorted, name))),
                           item_is_text)
             r      == PlainShifts(PlainBuckets,
                           [acc.stats EXCEPT !.employees_processed = @ + 1],
                           shifts)
             rows   == PlainRows(name, shifts[1].Date, r.buckets)
         IN  PlainEmployees(Tail(names),
                 [rows  |-> acc.rows \o rows,
                  stats |-> [r.totals EXCEPT !.output_lines = @ + Len(rows)],
                  error |-> FALSE],
                 sorted, item_is_text)

\* Lines 529-668 on a frame whose Payroll Item column is an object column
\* (item_is_text) or a float64 column: [error, output_df, stats]
PlainRun(frame, item_is_text) ==
    LET sorted == SortByNameDate(frame)
        r == PlainEmployees(UniqueNames(sorted, {}),
                            [rows |-> <<>>, stats |-> PlainStats(Len(sorted)),
                             error |-> FALSE],
                            sorted, item_is_text)
    IN  [error     |-> r.error,
         output_df |-> IF r.error THEN <<>> ELSE SortByNameItem(r.rows),
         stats     |-> r.stats,
         rows      |-> r.rows]

\* Lines 529-668 on a frame made of the rows
process_payroll_data(frame) == PlainRun(frame, ItemColumnIsText(frame))

\* The plain run at hand ends as the function says
PlainRunMatchesFunction ==
    LET f == process_payroll_data(df)
    IN  /\ pc = "plain done" =>
               ~f.error /\ output_df = f.output_df /\ stats = f.stats
        /\ pc = "plain error" =>
               f.error /\ stats = f.stats /\ processed_rows = f.rows

\* The rows of the payroll run, and holiday-pay rows in both spellings
PlainInputRows ==
    PayrollRows
    \cup {Row(N_E1, d, c, H(8), <<>>) :
            d \in {1, 2}, c \in {S_PHP_Holiday, S_PHPHoliday}}

InitPlain ==
    /\ df \in BoundedSeq(PlainInputRows, MaxRows)
    /\ times_df = NoFrame
    /\ stat_configs = <<>>
    /\ period = [start |-> 0, end |-> 0]
    /\ pc = "plain start"
    /\ RunIdle
    /\ UnionIdle
    /\ SegIdle
    /\ AuxStart

NextPlain ==
    \/ PlainPrepare
    \/ PlainBeginEmployee
    \/ PlainSkipShift
    \/ PlainPhpShift
    \/ PlainShift
    \/ PlainFinishEmployee
    \/ PlainBeginEmployeeError
    \/ PlainFinish

SpecPlain == InitPlain /\ [][NextPlain]_vars

-----------------------------------------------------------------------------
(* The head of each run on exports of every shape *)

\* The exports: either naming of the name, date and duration columns, with or
\* without a Notes column and a Class column, dates as text or as datetimes
PayrollFrames ==
    {FrameObject(<<n, d, "Payroll Item", h>> \o x \o y, t) :
        n \in {"Name", "Staff_Last_First"},
        d \in {"Transaction Date", "Date"},
        h \in {"Duration", "Actual_Total_calc"},
        x \in {<<>>, <<"Notes">>},
        y \in {<<>>, <<"Class">>},
        t \in {"text", "datetime"}}

TimesFrames ==
    {Absent}
    \cup {FrameObject(<<n, d, "Actual_Start", "Actual_End">>, t) :
            n \in {"Name", "Staff_Last_First"},
            d \in {"Transaction Date", "Date"},
            t \in {"text", "datetime"}}

\* A call of one of the three runs on an export without rows
InitFrames ==
    /\ caller \in [df : PayrollFrames, times_df : TimesFrames]
    /\ local = NoBindings
    /\ code_in = <<>>
    /\ code_out = <<>>
    /\ df = <<>>
    /\ times_df = IF caller.times_df.present THEN TimesFrame(<<>>) ELSE NoFrame
    /\ stat_configs = <<>>
    /\ period = [start |-> 1, end |-> 3]
    /\ pc \in {"start", "plain start", "union start"}
    /\ RunIdle
    /\ UnionIdle
    /\ SegIdle

NextFrames ==
    \/ Prepare
    \/ PlainPrepare
    \/ UnionPrepare

SpecFrames == InitFrames /\ [][NextFrames]_vars

-----------------------------------------------------------------------------
(* The segmenter *)

\* The time of day, in seconds, of the cells that hold a time of day
ClockCells ==
    {c \in TimeCells : c.kind = "time"}
    \cup {TimeStr(Txt_20_00_00), TimeStr(Txt_04_30_00), TimeStr(Txt_4_30_0)}
ClockOf(cell) ==
    IF cell.kind = "time"
    THEN cell.hms[1] * 3600 + cell.hms[2] * 60 + cell.hms[3]
    ELSE IF cell.text = Txt_20_00_00 THEN 20 * 3600
    ELSE 4 * 3600 + 30 * 60

\* The cells that are absent or hold no time of day
UnusableCells ==
    {NoTime, TimeStr(Txt_20_00), TimeStr(Txt_25_00_00), TimeStr(Txt_8pm)}

Least(a, b) == IF a < b THEN a ELSE b
Greatest(a, b) == IF a > b THEN a ELSE b

\* seconds of the interval [from, to) that fall on day d
SecondsOnDay(d, from, to) ==
    Greatest(0, Least(to, (d + 1) * SecondsPerDay) - Greatest(from, d * SecondsPerDay))

\* The hours of the segments added up in their order
RECURSIVE SumHoursFrom(_, _)
SumHoursFrom(segs, acc) ==
    IF segs = <<>> THEN acc
    ELSE SumHoursFrom(Tail(segs), FAdd(acc, Head(segs).hours))
SumHours(segs) == SumHoursFrom(segs, FZero)

\* The seconds of the interval [from, to) that fall on the days of the segments
RECURSIVE SumSeconds(_, _, _)
SumSeconds(segs, from, to) ==
    IF segs = <<>> THEN 0
    ELSE SecondsOnDay(Head(segs).date, from, to) + SumSeconds(Tail(segs), from, to)

\* C6: with both times present the shift runs from the start time on the shift
\* date to the end time on the same date, or on the next date iff the end time
\* is strictly earlier than the start time; the segments are one per calendar
\* day touched, in ascending date order, each with the hours of the shift
\* inside that day, statutory iff its own date is a configured holiday, and
\* the hours sum to end minus start (the seconds exactly, the hours as
\* floating-point numbers up to their rounding).  20:00-04:00 on the eve of a
\* holiday gives 4 h not statutory and 4 h statutory.
C6_SegmentsByClock ==
    (/\ seg_out.returned
     /\ seg_in.start_time \in ClockCells
     /\ seg_in.end_time \in ClockCells) =>
        LET d0    == seg_in.shift_date
            s     == ClockOf(seg_in.start_time)
            e     == ClockOf(seg_in.end_time)
            from  == d0 * SecondsPerDay + s
            to    == (IF e < s THEN d0 + 1 ELSE d0) * SecondsPerDay + e
            days  == {d \in (d0 - 1)..(d0 + 2) : SecondsOnDay(d, from, to) > 0}
            segs  == seg_out.segments
        IN  /\ Len(segs) = Cardinality(days)
            /\ \A k \in 1..Len(segs) :
                   /\ segs[k].date \in days
                   /\ segs[k].hours =
                          HoursOfSeconds(SecondsOnDay(segs[k].date, from, to))
                   /\ segs[k].is_stat =
                          (\E i \in 1..Len(seg_in.stat_dates) :
                               seg_in.stat_dates[i] = segs[k].date)
            /\ \A k \in 1..(Len(segs) - 1) : segs[k].date < segs[k + 1].date
            /\ SumSeconds(segs, from, to) = to - from
            /\ SameHours(SumHours(segs), HoursOfSeconds(to - from))
            /\ (s = 20 * 3600 /\ e = 4 * 3600 /\ seg_in.stat_dates = <<d0 + 1>>)
                   => segs = <<Segment(d0, H(4), FALSE),
                               Segment(d0 + 1, H(4), TRUE)>>

\* 20:00 (given as text) to 04:00 on the eve of the holiday of day 2
W_C6_AcrossMidnight ==
    /\ seg_out.returned
    /\ seg_in.shift_date = 1
    /\ seg_in.start_time = TimeStr(Txt_20_00_00)
    /\ seg_in.end_time = TimeOf(4, 0, 0)
    /\ seg_in.stat_dates = <<2>>
    /\ Len(seg_out.segments) = 2
    /\ seg_out.segments[2].is_stat

\* C7: when the start time or the end time is absent or unparsable the
\* segmenter returns exactly one segment: the shift date, the full
\* total_hours, statutory iff the shift date is a configured holiday.
C7_FallbackSegment ==
    (/\ seg_out.returned
     /\ (seg_in.start_time \in UnusableCells \/ seg_in.end_time \in UnusableCells)) =>
        seg_out.segments =
            <<[date    |-> seg_in.shift_date,
               hours   |-> seg_in.total_hours,
               is_stat |-> \E i \in 1..Len(seg_in.stat_dates) :
                               seg_in.stat_dates[i] = seg_in.shift_date]>>

\* an hour of 25 as start time, on a holiday
W_C7_UnparsableOnHoliday ==
    /\ seg_out.returned
    /\ seg_in.start_time = TimeStr(Txt_25_00_00)
    /\ seg_in.end_time = TimeOf(4, 0, 0)
    /\ seg_in.shift_date = 2
    /\ seg_in.stat_dates = <<2>>
    /\ seg_in.total_hours = HM(7, 984)
    /\ Len(seg_out.segments) = 1
    /\ seg_out.segments[1].is_stat

-----------------------------------------------------------------------------
(* The union benefits *)

\* x is y rounded to 2 places, by the built-in round or by NumPy's
Rounded2(x, y) == x = Round2(y) \/ x = NpRound2(y)

\* C9: the figures of every employee of the union result: the payable hours
\* of a week are min(actual hours of the week, 44), the total payable hours
\* are the sum of the two (never above 88), the total cost is the total
\* payable hours times 0.80; the row shows each figure rounded to 2 places
\* (50 h and 30 h give 44 and 30 payable, cost 59.20).
C9_UnionCap ==
    /\ (pc = "union employees" /\ union_out # <<>>) =>
        LET f == union_locals
            r == union_out[Len(union_out)]
        IN  /\ f.week1_payable = FLeast(f.week1_actual, H(44))
            /\ f.week2_payable = FLeast(f.week2_actual, H(44))
            /\ f.total_payable = FAdd(f.week1_payable, f.week2_payable)
            /\ FLessEq(f.total_payable, H(88))
            /\ f.total_cost = FMul(f.total_payable, FDec(80, 100))
            /\ r.Name = f.name
            /\ Rounded2(r.Week1Actual, f.week1_actual)
            /\ Rounded2(r.Week1Payable, f.week1_payable)
            /\ Rounded2(r.Week2Actual, f.week2_actual)
            /\ Rounded2(r.Week2Payable, f.week2_payable)
            /\ Rounded2(r.TotalPayable, f.total_payable)
            /\ Rounded2(r.TotalCost, f.total_cost)
    /\ \A k \in 1..Len(union_out) :
           LET r == union_out[k] IN
               /\ r.Week1Payable = FLeast(r.Week1Actual, H(44))
               /\ r.Week2Payable = FLeast(r.Week2Actual, H(44))
               /\ FLessEq(r.TotalPayable, H(88))
               /\ FLessEq(FSub(r.TotalPayable,
                               FAdd(r.Week1Payable, r.Week2Payable)),
                          FDec(1, 100))
               /\ FLessEq(FSub(FAdd(r.Week1Payable, r.Week2Payable),
                               r.TotalPayable),
                          FDec(1, 100))
               /\ (r.Week1Actual = H(50) /\ r.Week2Actual = H(30))
                      => /\ r.Week1Payable = H(44)
                         /\ r.Week2Payable = H(30)
                         /\ r.TotalPayable = H(74)
                         /\ r.TotalCost = FDec(5920, 100)

\* 50 h in the first week and 30 h in the second
W_C9_FiftyAndThirty ==
    /\ pc = "union done"
    /\ \E k \in 1..Len(union_out) :
           /\ union_out[k].Week1Actual = H(50)
           /\ union_out[k].Week2Actual = H(30)
           /\ union_out[k].TotalCost = FDec(5920, 100)

\* the positive durations of an employee's records dated lo..hi, added up in
\* the order of the frame sorted by name and date
RECURSIVE PositiveHoursFrom(_, _, _, _, _)
PositiveHoursFrom(rows, name, lo, hi, acc) ==
    IF rows = <<>> THEN acc
    ELSE PositiveHoursFrom(Tail(rows), name, lo, hi,
             IF /\ Head(rows).Name = name
                /\ FPositive(Head(rows).Duration)
                /\ lo <= Head(rows).Date /\ Head(rows).Date <= hi
             THEN FAdd(acc, Head(rows).Duration) ELSE acc)
PositiveHours(name, lo, hi) ==
    PositiveHoursFrom(SortByNameDate(df), name, lo, hi, FZero)

FirstDate == CHOOSE d \in {df[i].Date : i \in 1..Len(df)} :
                 \A i \in 1..Len(df) : d <= df[i].Date
LastDate == CHOOSE d \in {df[i].Date : i \in 1..Len(df)} :
                \A i \in 1..Len(df) : d >= df[i].Date

\* C10: the boundary is the earliest transaction date over all input rows,
\* rows of zero or missing duration included, plus 6 days; every row of
\* positive duration counts in week 1 iff its date is not after the boundary
\* and in week 2 otherwise, so the two weeks add up to the employee's total
\* positive duration (as floating-point sums, up to their rounding); an
\* employee without positive duration has no row.
C10_UnionWeeks ==
    /\ \A k \in 1..Len(union_out) :
           LET r == union_out[k] IN
               /\ Rounded2(r.Week1Actual,
                           PositiveHours(r.Name, FirstDate, FirstDate + 6))
               /\ Rounded2(r.Week2Actual,
                           PositiveHours(r.Name, FirstDate + 7, LastDate))
               /\ FPositive(PositiveHours(r.Name, FirstDate, LastDate))
               /\ \A j \in 1..Len(union_out) : union_out[j].Name = r.Name => j = k
    /\ (pc = "union employees" /\ union_out # <<>>) =>
           /\ union_locals.week1_actual =
                  PositiveHours(union_locals.name, FirstDate, FirstDate + 6)
           /\ union_locals.week2_actual =
                  PositiveHours(union_locals.name, FirstDate + 7, LastDate)
           /\ SameHours(FAdd(union_locals.week1_actual,
                             union_locals.week2_actual),
                        PositiveHours(union_locals.name, FirstDate, LastDate))
    /\ pc = "union done" =>
           \A i \in 1..Len(df) :
               (FPositive(df[i].Duration) /\ ~IsNaText(df[i].Name))
                   => \E k \in 1..Len(union_out) : union_out[k].Name = df[i].Name

\* the earliest row has no duration and the only hours are 7 days later
W_C10_BoundaryFromEmptyRow ==
    /\ pc = "union done"
    /\ \E i, j \in 1..Len(df) :
           /\ df[i].Date = 1 /\ df[i].Duration = FZero
           /\ df[j].Date = 8 /\ df[j].Duration = H(30)
           /\ df[i].Name = df[j].Name
    /\ Len(union_out) = 1
    /\ union_out[1].Week1Actual = FZero
    /\ union_out[1].Week2Actual = H(30)

-----------------------------------------------------------------------------
(* The entitlement *)

\* The states in which the holiday loop of the employee at hand has run
EntitlementComputed ==
    /\ pc \in {"employees", "done", "error"}
    /\ emp.name # <<>>
    /\ ~IsNaText(emp.name)
    /\ ~AccessorFails(emp.name, df, stat_configs)

\* the rows of df of an employee dated lo..hi that have a duration and no OT
\* or STAT in the code, in the order of df
RECURSIVE QualifyingRows(_, _, _, _)
QualifyingRows(i, name, lo, hi) ==
    IF i = 0 THEN <<>>
    ELSE QualifyingRows(i - 1, name, lo, hi)
         \o (IF /\ df[i].Name = name
                /\ lo <= df[i].Date /\ df[i].Date <= hi
                /\ ~IsNaDur(df[i].Duration) /\ df[i].Duration # FZero
                /\ ~Contains(df[i].Item, S_OT) /\ ~Contains(df[i].Item, S_STAT)
             THEN <<df[i]>> ELSE <<>>)

\* their hours, added up in that order
RECURSIVE HoursOfRows(_, _)
HoursOfRows(rows, acc) ==
    IF rows = <<>> THEN acc
    ELSE HoursOfRows(Tail(rows), FAdd(acc, Head(rows).Duration))
QualifyingHours(i, name, lo, hi) ==
    HoursOfRows(QualifyingRows(i, name, lo, hi), FZero)

\* the window of a holiday: the one of the last configuration of that date
WindowOf(stat_date) ==
    LET last == CHOOSE i \in 1..Len(stat_configs) :
                    /\ stat_configs[i].stat_date = stat_date
                    /\ \A j \in (i + 1)..Len(stat_configs) :
                           stat_configs[j].stat_date # stat_date
    IN  stat_configs[last]

\* The entitlement of every holiday follows the formula, and 200 qualifying
\* hours at 20.00 and 4% give 176 h, 3520 of wages, the given dollars (in
\* cents) and 6.10 hours
EntitlementFollowsFormula(example_cents) ==
    EntitlementComputed =>
        /\ Len(emp.php) = Len(stat_configs)
        /\ \A k \in 1..Len(emp.php) :
               LET l == emp.php[k]
                   w == WindowOf(stat_configs[k].stat_date)
                   q == QualifyingHours(Len(df), emp.name, w.php_start, w.php_end)
               IN  /\ l.total_hours = q
                   /\ l.capped_hours = FLeast(q, H(176))
                   /\ FLessEq(l.capped_hours, H(176))
                   /\ l.total_wages = FMul(l.capped_hours, l.primary_rate)
                   /\ l.php_dollars =
                          FDivInt(FMul(l.total_wages,
                                       FAdd(FOfInt(1), l.vacation_pct)), 20)
                   /\ l.php_hours = FDivInt(l.php_dollars, 30)
                   /\ (/\ q = H(200)
                       /\ l.primary_rate = FDec(2000, 100)
                       /\ l.vacation_pct = FDec(4, 100))
                          => /\ l.capped_hours = H(176)
                             /\ l.total_wages = H(3520)
                             /\ Round2(l.php_dollars) = FDec(example_cents, 100)
                             /\ Round2(l.php_hours) = FDec(610, 100)

\* C11 as claimed: for each configured holiday the hours counted are the sum
\* of the durations of the employee's rows inside the inclusive lookback
\* window with a non-zero duration and no OT/STAT marker, capped at 176; the
\* wages are capped hours x rate, the dollars wages x (1 + vacation) / 20, the
\* hours dollars / 30; 200 h at 20.00 and 4% give 176 h, 3520, 182.96 dollars
\* and about 6.10 hours.
CE_C11_Dollars18296 == EntitlementFollowsFormula(18296)

\* C11 as amended: the same formula; 200 h at 20.00 and 4% give 176 h, 3520,
\* 183.04 dollars (3520 x 1.04 / 20) and about 6.10 hours.
C11_EntitlementFormula == EntitlementFollowsFormula(18304)

\* 200 lookback hours at 20.00 and 4%
W_C11_TwoHundredHours ==
    /\ pc = "done"
    /\ \E k \in 1..Len(emp.php) :
           /\ emp.php[k].total_hours = H(200)
           /\ emp.php[k].capped_hours = H(176)
           /\ emp.php[k].primary_rate = FDec(2000, 100)
           /\ emp.php[k].vacation_pct = FDec(4, 100)
    /\ \E i \in 1..Len(output_df) :
           /\ output_df[i].Item = S_PHP_Holiday
           /\ output_df[i].Duration = FDec(610, 100)

\* the most frequent code of the rows; of several, the one seen first
MostFrequentFirstSeen(rows) ==
    LET Count(c) == Cardinality({i \in 1..Len(rows) : rows[i].Item = c})
        First(c) == CHOOSE i \in 1..Len(rows) :
                        rows[i].Item = c /\ \A j \in 1..(i - 1) : rows[j].Item # c
        codes == {rows[i].Item : i \in 1..Len(rows)}
        modes == {c \in codes : \A o \in codes : Count(o) <= Count(c)}
    IN  CHOOSE c \in modes : \A o \in modes : First(c) <= First(o)

\* C12 as claimed: the representative rate of a holiday is the rate of the
\* code that occurs most often among the employee's qualifying lookback rows;
\* of several codes tied for most frequent, the one whose first occurrence
\* comes earliest in the rows.
CE_C12_FirstSeenMode ==
    EntitlementComputed =>
        \A k \in 1..Len(emp.php) :
            LET w    == WindowOf(stat_configs[k].stat_date)
                rows == QualifyingRows(Len(df), emp.name, w.php_start, w.php_end)
            IN  rows # <<>> =>
                    emp.php[k].primary_rate =
                        extract_rate_from_code(MostFrequentFirstSeen(rows))

\* the greatest percentage of the notes of the rows, from the first row on
RECURSIVE GreatestPercent(_)
GreatestPercent(rows) ==
    IF Len(rows) = 1 THEN extract_vacation_percent(rows[1].Notes)
    ELSE FGreatest(extract_vacation_percent(rows[1].Notes),
                   GreatestPercent(Tail(rows)))

\* C13 as claimed: the vacation percentage of a holiday is the maximum of the
\* percentages of the notes of the employee's qualifying lookback rows (0.04
\* for a row without one), and 0.04 only without qualifying rows; when every
\* such row says "2%" it is 0.02.
CE_C13_StatedMaximum ==
    EntitlementComputed =>
        \A k \in 1..Len(emp.php) :
            LET w    == WindowOf(stat_configs[k].stat_date)
                rows == QualifyingRows(Len(df), emp.name, w.php_start, w.php_end)
            IN  emp.php[k].vacation_pct =
                    IF rows = <<>> THEN FDec(4, 100) ELSE GreatestPercent(rows)

\* the sum of the entitlement hours of the locals, in their order
RECURSIVE SumPhpHoursFrom(_, _)
SumPhpHoursFrom(locals, acc) ==
    IF locals = <<>> THEN acc
    ELSE SumPhpHoursFrom(Tail(locals), FAdd(acc, Head(locals).php_hours))
SumPhpHours(locals) == SumPhpHoursFrom(locals, FZero)

\* the rows already emitted for the employee at hand with the entitlement label
PhpLinesOfEmp ==
    {i \in 1..Len(processed_rows) :
        processed_rows[i].Name = emp.name /\ processed_rows[i].Item = S_PHP_Holiday}

\* exactly one entitlement line iff the sum is positive, with the sum as hours
\* and the earliest holiday inside the period as date
PhpLineAsClaimed ==
    LET total == SumPhpHours(emp.php)
        inside == {stat_configs[i].stat_date : i \in {j \in 1..Len(stat_configs) :
                      /\ period.start <= stat_configs[j].stat_date
                      /\ stat_configs[j].stat_date <= period.end}}
    IN  /\ FPositive(total) <=> Cardinality(PhpLinesOfEmp) = 1
        /\ total = FZero => PhpLinesOfEmp = {}
        /\ \A i \in PhpLinesOfEmp :
               /\ processed_rows[i].Duration = Round2(total)
               /\ inside # {}
               /\ processed_rows[i].Date \in inside
               /\ \A d \in inside : processed_rows[i].Date <= d

\* C14 as claimed: for every employee of a run exactly one line labelled
\* "PHP (Holiday)" is emitted iff the sum of the employee's entitlement hours
\* over all configured holidays is strictly positive; its hours are that sum
\* and its date the earliest configured holiday inside the pay period; no such
\* line when the sum is zero.
CE_C14_OnePhpLine == EntitlementComputed => PhpLineAsClaimed

\* The same for the employees whose loop body reached its end
PhpLineWhenBodyCompletes ==
    (EntitlementComputed /\ pc # "error") => PhpLineAsClaimed

\* C15 as claimed: a run in which an employee has positive entitlement hours
\* and no configured holiday lies inside the pay period still completes with
\* a defined result; it never aborts.
CE_C15_NeverAborts ==
    (/\ EntitlementComputed
     /\ FPositive(SumPhpHours(emp.php))
     /\ \A i \in 1..Len(stat_configs) :
            stat_configs[i].stat_date < period.start
            \/ stat_configs[i].stat_date > period.end)
        => pc # "error"

-----------------------------------------------------------------------------
(* The overtime variant *)

\* C16 as claimed: the overtime variant never double-tags: applied to its own
\* result it returns that result, for "Regular" (variant "Hourly Overtime
\* /STAT"), for a code containing "21.75" without an OT marker (variant
\* "21.75 Rate OT/STAT") and for any other code (the code without an OT/STAT
\* suffix, followed by " OT/ STAT").
CE_C16_VariantIdempotent ==
    /\ Len(code_out) >= 1 =>
           /\ code_in = S_Regular => code_out[1] = S_HourlyOT
           /\ code_in \in {S_2175, C_2175_Rate} => code_out[1] = S_2175_OT
           /\ code_in \in {C_20, C_20 \o S_sp_OT_STAT, C_20 \o S_sp_OT_sp_STAT}
                  => code_out[1] = C_20 \o S_sp_OT_sp_STAT
    /\ Len(code_out) = 2 => code_out[2] = code_out[1]

-----------------------------------------------------------------------------
(* The caller's frames *)

\* C17 as claimed: a payroll run or a union-benefit run leaves the
\* caller-supplied record set and time-detail feed exactly as they were (same
\* columns, same values); all normalisation is done on private copies.
CE_C17_CallerFramesUnchanged == [][caller' = caller]_vars

-----------------------------------------------------------------------------
(* The order in which segments reach the allocator *)

\* The segments of the rows of the employee at hand that came before the row
\* being applied, as the run produced them
EarlierSegments ==
    UNION {
        LET shift == emp.shifts[j]
            segs  == ShiftSegments(emp.name, shift,
                                   create_times_lookup(times_df),
                                   StatDates(stat_configs))
        IN  IF SkipDuration(shift.Duration) \/ AlreadyMarked(shift.Item)
            THEN {}
            ELSE {segs[k] : k \in 1..Len(segs)}
        : j \in 1..(emp.idx - 2)}

\* C18 as claimed: within one employee a segment dated d is never applied to
\* the 88-hour counter after a segment dated later than d, also when a shift
\* across midnight gives a next-day segment and the employee has another
\* segment on the shift's own date.
CE_C18_AscendingSegmentDates ==
    pc = "segments" =>
        \A seg \in EarlierSegments : seg.date <= Head(emp.segs).date

-----------------------------------------------------------------------------
(* One employee's lines and the other employees' records *)

\* The call on the records of one employee alone
ResultAlone(name) == ResultOn(RowsOfName(df, name))

\* The employee's lines of the run at hand are those of the call on the
\* employee's own records
SameLinesAlone(name) ==
    /\ pc = "done"
    /\ RowsOfName(output_df, name) = RowsOfName(ResultAlone(name).output_df, name)

\* C19 as claimed: the output lines of an employee (rate-codes, hours, dates)
\* are a function of that employee's own records, time details and the run
\* configuration only; records of other employees do not change them.
CE_C19_OwnRecordsOnly ==
    pc \in {"done", "error"} =>
        \A i \in 1..Len(df) :
            ~ResultAlone(df[i].Name).error => SameLinesAlone(df[i].Name)

\* Every record of the employee carries a rate-code
HasEveryCode(name) ==
    \A i \in 1..Len(df) : df[i].Name = name => ~IsNaText(df[i].Item)

\* In a run that is not aborted the lines of each employee whose records all
\* carry a rate-code are those of the call on the employee's own records,
\* when that call is not aborted either
OwnRecordsOnlyWhenCompleted ==
    pc = "done" =>
        \A i \in 1..Len(df) :
            (HasEveryCode(df[i].Name) /\ ~ResultAlone(df[i].Name).error)
                => SameLinesAlone(df[i].Name)

-----------------------------------------------------------------------------
(* The accumulators of one employee *)

\* The segments of the first j rows of the employee at hand, skipped rows
\* giving none
RECURSIVE SegmentsUpTo(_)
SegmentsUpTo(j) ==
    IF j = 0 THEN <<>>
    ELSE LET shift == emp.shifts[j]
         IN  SegmentsUpTo(j - 1)
             \o (IF SkipDuration(shift.Duration) \/ AlreadyMarked(shift.Item)
                 THEN <<>>
                 ELSE ShiftSegments(emp.name, shift,
                                    create_times_lookup(times_df),
                                    StatDates(stat_configs)))

\* The segments applied so far: those of the rows passed, less the ones of
\* the row at hand that still wait
AppliedSegments ==
    LET all == SegmentsUpTo(emp.idx - 1)
    IN  SubSeq(all, 1, Len(all) - Len(emp.segs))

\* The hours of the segments that are statutory (or not), added up in the
\* order in which they were applied
RECURSIVE SumSegmentHoursFrom(_, _, _)
SumSegmentHoursFrom(segs, stat, acc) ==
    IF segs = <<>> THEN acc
    ELSE SumSegmentHoursFrom(Tail(segs), stat,
             IF Head(segs).is_stat = stat
             THEN FAdd(acc, Head(segs).hours) ELSE acc)
SumSegmentHours(segs, stat) == SumSegmentHoursFrom(segs, stat, FZero)

\* The counter is N as the program adds it up; the bucket sums are the
\* claimed amounts up to the rounding of floating-point addition
BucketsFollowCounter ==
    (emp.name # <<>> /\ ~IsNaText(emp.name)) =>
        LET N == SumSegmentHours(AppliedSegments, FALSE)
            b == emp.buckets
        IN  /\ b.cumulative_regular_hours = N
            /\ SameHours(DictSum(b.regular_hours), FLeast(N, OT_THRESHOLD))
            /\ FLessEq(DictSum(b.regular_hours), OT_THRESHOLD)
            /\ SameHours(DictSum(b.overtime_hours),
                         FGreatest(FSub(N, OT_THRESHOLD), FZero))
            /\ SameHours(DictSum(b.stat_hours),
                         SumSegmentHours(AppliedSegments, TRUE))

RegularClosedByOvertime ==
    (emp'.name = emp.name /\ FPositive(DictSum(emp.buckets.overtime_hours)))
        => FLessEq(DictSum(emp'.buckets.regular_hours),
                   DictSum(emp.buckets.regular_hours))

\* The hours of the first j rows of the employee at hand that the plain run
\* sets against the threshold
RECURSIVE PlainHoursUpTo(_)
PlainHoursUpTo(j) ==
    IF j = 0 THEN FZero
    ELSE LET shift == emp.shifts[j]
         IN  FAdd(PlainHoursUpTo(j - 1),
                  IF SkipDuration(shift.Duration) \/ IsPhpItem(shift.Item)
                  THEN FZero ELSE shift.Duration)

\* The same figures in process_payroll_data, where each shift is one segment
PlainBucketsFollowCounter ==
    (emp.name # <<>> /\ ~IsNaText(emp.name)) =>
        LET N == PlainHoursUpTo(emp.idx - 1)
            b == emp.buckets
        IN  /\ b.cumulative_hours = N
            /\ SameHours(DictSum(b.regular_hours), FLeast(N, OT_THRESHOLD))
            /\ SameHours(DictSum(b.overtime_hours),
                         FGreatest(FSub(N, OT_THRESHOLD), FZero))

\* C20: after any sequence of segments processed for one employee, with N the
\* non-statutory segment hours applied so far, the cumulative counter is N,
\* the regular bucket sums to min(N, 88) and never exceeds 88, the overtime
\* bucket sums to max(N - 88, 0), the statutory bucket sums to the statutory
\* segment hours applied (each sum up to the rounding of floating-point
\* addition), and once the overtime bucket holds an hour the regular bucket
\* never grows again.
C20_BucketsAndCounter ==
    /\ []BucketsFollowCounter
    /\ [][RegularClosedByOvertime]_vars

\* The regular bucket full, overtime applied, and one more non-statutory
\* segment about to be applied
W_C20_OvertimeThenMore ==
    /\ pc = "segments"
    /\ FPositive(DictSum(emp.buckets.overtime_hours))
    /\ DictSum(emp.buckets.regular_hours) = OT_THRESHOLD
    /\ ~Head(emp.segs).is_stat

-----------------------------------------------------------------------------
(* The hours of a shift and the hours of its segments *)

\* C21 as claimed: for every combination of start and end time the segments
\* returned for a shift of positive duration are never empty and their hours
\* sum to the recorded total_hours, also when the start time equals the end
\* time and when the span of the clock times differs from the duration.
CE_C21_SegmentsSumToDuration ==
    (seg_out.returned /\ FPositive(seg_in.total_hours)) =>
        /\ seg_out.segments # <<>>
        /\ SumHours(seg_out.segments) = seg_in.total_hours

\* With a start or end time that is absent or unusable the one segment
\* carries the recorded duration
FallbackKeepsDuration ==
    (/\ seg_out.returned
     /\ (seg_in.start_time \in UnusableCells \/ seg_in.end_time \in UnusableCells)) =>
        /\ Len(seg_out.segments) = 1
        /\ SumHours(seg_out.segments) = seg_in.total_hours

-----------------------------------------------------------------------------
(* The stat-aware run and the plain run *)

\* Lines 896-901: the plain run on the records filtered to the pay period;
\* the filtered frame keeps the Payroll Item column of the whole frame
PlainOnPeriod ==
    PlainRun(RowsBetween(df, period.start, period.end), ItemColumnIsText(df))

NoHolidayNoTimes == stat_configs = <<>> /\ ~times_df.present

\* C22 as claimed: with no statutory holiday configured and no time-detail
\* feed, the stat-aware run and the plain run on the same records filtered to
\* the pay period give the same set of (employee, rate-code, hours) lines, for
\* every input, also with rows already tagged OT, STAT or PHP.
CE_C22_SameLinesAsPlainRun ==
    (pc = "done" /\ NoHolidayNoTimes) =>
        Lines(output_df) = Lines(PlainOnPeriod.output_df)

\* No record of the frame carries OT, STAT or PHP in its rate-code
NoTaggedRows == \A i \in 1..Len(df) : ~AlreadyMarked(df[i].Item)

\* Without tagged rows the two runs differ by the rounding of the hours only
SameLinesUpToRounding ==
    (pc = "done" /\ NoHolidayNoTimes /\ NoTaggedRows) =>
        Lines(output_df) =
            {<<l[1], l[2], Round2(l[3])>> : l \in Lines(PlainOnPeriod.output_df)}

====
